---- MODULE Spec2Model ----
(***************************************************************************)
(* The multiplexed terminal bridge of apps/api: one process-wide           *)
(* TerminalBridge (main.py:28) serving several WebSocket connections, its  *)
(* PTYSessionManager registry, the reader tasks, the idle sweeper and the  *)
(* Redis-backed RateLimiter.                                               *)
(*                                                                         *)
(* Granularity: asyncio tasks interleave only at awaits that really        *)
(* suspend.  A handler is one action up to such an await; where code       *)
(* follows the await (the reader spawn after the session_created send,     *)
(* the close after the idle-timeout send) the continuation is a second     *)
(* action the suspended task must take, unless it is cancelled first.      *)
(* PTYSessionManager.create_session/close_session and the RateLimiter      *)
(* methods contain no await that suspends; they run inside the action.     *)
(* write_to_session is part of the input handler's step when the socket    *)
(* takes the bytes or fails at once; a write that finds the socket full    *)
(* suspends the handler, and its further attempts are steps of their own   *)
(* (SpecWrite).                                                            *)
(*                                                                         *)
(* PTYSession objects and reader tasks live as long as something refers    *)
(* to them (or, for a PTYSession, as long as its socket is open); ids of   *)
(* dead objects are reused.                                                *)
(***************************************************************************)
EXTENDS Integers, Sequences, FiniteSets, TLC

\* ---------------------------------------------------------------- bounds
Connections == {"c1", "c2"}       \* connections served by the one bridge
SessionOrder == <<"a", "b">>      \* sessionId values the clients choose
IPs         == {"ip1", "ip2"}     \* client addresses
MaxPty      == 2                  \* PTYSession objects alive at once
MaxTasks    == 2                  \* reader tasks alive at once
MaxFrames   == 3                  \* inbound frames received, all connections
MaxTicks    == 1                  \* clock advances
TickStep    == 3600               \* seconds per clock advance
TriesWrap   == 2                  \* write attempts are counted modulo this

\* ------------------------------------------------------ program constants
MAX_WEBSOCKET_MESSAGE_SIZE  == 64 * 1024
MAX_INPUT_SIZE              == 64 * 1024         \* terminal_bridge.py:26
MAX_TOTAL_INPUT_PER_SESSION == 10 * 1024 * 1024  \* terminal_bridge.py:27
SESSION_IDLE_TIMEOUT        == 30 * 60           \* terminal_bridge.py:32
MIN_TERMINAL_COLS == 1                           \* terminal_bridge.py:28
MAX_TERMINAL_COLS == 1000                        \* terminal_bridge.py:29
MIN_TERMINAL_ROWS == 1                           \* terminal_bridge.py:30
MAX_TERMINAL_ROWS == 1000                        \* terminal_bridge.py:31
\* settings.rate_limit_connections / rate_limit_commands (settings.py:107-110,
\* environment-injected, defaults 5 and 100), configured to 1: the second
\* connection, or the second command, from one address is over the ceiling.
rate_limit_connections == 1
rate_limit_commands    == 1

EmptySid == ""                    \* msg.get("sessionId") falsy
NoFrame  == [type |-> "none", sessionId |-> "", info |-> ""]

VARIABLES
    conn,                   \* per connection: the handle_websocket task
    sweeper,                \* per connection: the _check_idle_timeouts task
    sessions,               \* PTYSessionManager.sessions: sessionId -> pty
    ptys,                   \* the PTYSession objects alive
    tasks,                  \* the reader tasks alive (spawned or running)
    session_last_activity,  \* TerminalBridge.session_last_activity
    session_input_totals,   \* TerminalBridge.session_input_totals
    websocket_sessions,     \* TerminalBridge.websocket_sessions
    store,                  \* the Redis store behind RateLimiter
    now,                    \* time.time()
    last,                   \* the step just taken and the frame it sent
    scenario,               \* what the environment does in this run
    named,                  \* the sessionIds clients have used so far
    container               \* the terminal container, as Docker reports it

vars == <<conn, sweeper, sessions, ptys, tasks, session_last_activity,
          session_input_totals, websocket_sessions, store, now, last,
          scenario, named, container>>

\* What Docker reports for the terminal container: none of that name, or
\* its status.
ContainerStates == {"absent", "created", "exited", "running"}

\* A run has Redis outages ("outage") or the clock advancing ("clock").
Scenarios == {"outage", "clock"}

\* ------------------------------------------------------- dict operations
Put(d, k, v) == [x \in DOMAIN d \cup {k} |-> IF x = k THEN v ELSE d[x]]
Pop(d, k)    == [x \in DOMAIN d \ {k} |-> d[x]]
PopAll(d, K) == [x \in DOMAIN d \ K |-> d[x]]
EmptyDict    == [x \in {} |-> 0]
Range(d)     == {d[x] : x \in DOMAIN d}
Lowest(S)    == CHOOSE i \in S : \A j \in S : i <= j

Frame(t, s, i) == [type |-> t, sessionId |-> s, info |-> i]
\* What a step did: the operation, the connection whose task ran it, the
\* sessionId and data size of the frame received (or the reader's id), what
\* the environment answered (exec creation, socket write, Redis), the PTY
\* object acted on, and the frame handed to websocket.send_text.
Event(op, c, s, n, env, p, f) ==
    [op |-> op, conn |-> c, sid |-> s, size |-> n, env |-> env, pty |-> p,
     frame |-> f, closed |-> {}, dims |-> <<>>]
\* ... and, for a teardown, the PTYSession objects its finally block closed.
Closing(e, P) == [e EXCEPT !.closed = P]
\* ... and, for a resize frame, the "cols" and "rows" it carried.
Resizing(e, jc, jr) == [e EXCEPT !.dims = <<jc, jr>>]

\* ------------------------------------------------------------ RateLimiter
\* Every call either reaches Redis (up) or finds no client / gets
\* redis.ConnectionError (~up) and degrades open.  The calls of one handler
\* step run back to back and see the same Redis.

Ups == IF scenario = "outage" THEN BOOLEAN ELSE {TRUE}

\* check_connection_limit (rate_limiter.py:22-38): raises iff the
\* post-increment count is over the ceiling.
ConnectionRefused(st, ip, up) == up /\ st.conns[ip] + 1 > rate_limit_connections

store_after_check_connection(st, ip, up) ==
    IF up
    THEN [st EXCEPT !.conns[ip] = @ + 1]
    ELSE st

\* check_command_limit (rate_limiter.py:41-54)
CommandAllowed_always(st, ip, up) == TRUE
CommandAllowed(st, ip, up) == up => st.cmds[ip] + 1 <= rate_limit_commands

store_after_check_command(st, ip, up) ==
    IF up
    THEN [st EXCEPT !.cmds[ip] = @ + 1]
    ELSE st

\* track_connection (rate_limiter.py:56-71): sadd + hset
track_connection(st, c, up) ==
    IF up THEN [st EXCEPT !.active = @ \cup {c}] ELSE st

\* untrack_connection (rate_limiter.py:73-81): srem + delete
untrack_connection(st, c, up) ==
    IF up THEN [st EXCEPT !.active = @ \ {c}] ELSE st

\* ------------------------------------------------------ PTYSessionManager
\* PTYSession.close (pty_session_manager.py:29-40): the socket.
PTYSession_close_kept(p) == p
PTYSession_close(p) == [p EXCEPT !.open = FALSE]

\* The PTYSession objects that close_session pops for the ids in S.
Popped(reg, S) == {reg[s] : s \in S \cap DOMAIN reg}

\* read_task.cancel() in PTYSession.close: the tasks that get cancelled.  A
\* cancelled task runs no more of its code; like a task that returned, it is
\* dropped from `tasks`.
Cancelled(reg, ps, S) == {ps[i].read_task : i \in Popped(reg, S)}

\* close_session (pty_session_manager.py:89-93) for every id in S.
sessions_after_close(reg, S) == PopAll(reg, S)
ptys_after_close(reg, ps, S) ==
    [i \in DOMAIN ps |->
        IF i \in Popped(reg, S) THEN PTYSession_close(ps[i]) ELSE ps[i]]
tasks_after_close(reg, ps, ts, S) == PopAll(ts, Cancelled(reg, ps, S))

\* Python keeps an object while something refers to it: the registry, a
\* handler suspended with `session` in hand, a reader task.  A closed
\* PTYSession nothing refers to is gone; an open one stays to be seen.
Referenced(reg, cn, ts) ==
    Range(reg)
      \cup {cn[c].pty : c \in {d \in Connections :
                                   cn[d].pc \in {"send_created", "write"}}}
      \cup {ts[t].pty : t \in DOMAIN ts}
Collect(ps, reg, cn, ts) ==
    [i \in {j \in DOMAIN ps : ps[j].open \/ j \in Referenced(reg, cn, ts)} |->
        [ps[i] EXCEPT !.read_task =
            IF @ \in DOMAIN ts THEN @ ELSE 0]]

\* ---------------------------------------------------------------- Init
Fresh ==
    /\ conn = [c \in Connections |->
                 [pc |-> "new", ip |-> "", sid |-> EmptySid, pty |-> 0,
                  accepted |-> FALSE, closeCode |-> 0,
                  checked |-> <<>>, limited |-> FALSE, tracked |-> 0,
                  frames |-> 0, size |-> 0, tries |-> 0]]
    /\ sweeper = [c \in Connections |->
                    [st |-> "none", sid |-> EmptySid, todo |-> {}]]
    /\ sessions = EmptyDict
    /\ ptys = EmptyDict
    /\ tasks = EmptyDict
    /\ session_last_activity = EmptyDict
    /\ session_input_totals = EmptyDict
    /\ websocket_sessions = EmptyDict
    /\ store = [conns |-> [i \in IPs |-> 0], cmds |-> [i \in IPs |-> 0],
                active |-> {}]
    /\ now = 0
    /\ scenario \in Scenarios
    /\ named = {}
    /\ last = Event("init", "", EmptySid, 0, "", 0, NoFrame)

\* ... with the terminal container up, as docker-compose leaves it.
Init == Fresh /\ container = "running"

\* ------------------------------------------------------- handle_websocket
Loop(c) == conn[c].pc = "loop"

\* Session ids are interchangeable: the first one any client uses is called
\* "a", the next new one "b".
Nameable ==
    named \cup {SessionOrder[i] : i \in {j \in DOMAIN SessionOrder :
                     \A k \in 1..(j - 1) : SessionOrder[k] \in named}}

\* `data = await websocket.receive_text()` (line 305) returns a frame.
RECURSIVE Sum(_, _)
Sum(f, S) == IF S = {} THEN 0
             ELSE LET x == CHOOSE y \in S : TRUE IN f[x] + Sum(f, S \ {x})
FramesReceived == Sum([c \in Connections |-> conn[c].frames], Connections)
Receive(c) == Loop(c) /\ FramesReceived < MaxFrames
Received(cn, c) == [cn EXCEPT ![c].frames = @ + 1]

\* The connections and their addresses are interchangeable: the one called
\* c1 is the first to arrive and its address is called ip1.
First == "c1"
MayArrive(c) == conn[c].pc = "new" /\ (c = First \/ conn[First].pc # "new")
ClientIPs(c) == IF c = First THEN {"ip1"} ELSE IPs

\* close_session for the ids in S, then the objects nothing refers to go.
\* (Reads conn', which the action using it must have set.)
CloseSessions(S) ==
    /\ sessions' = sessions_after_close(sessions, S)
    /\ tasks' = tasks_after_close(sessions, ptys, tasks, S)
    /\ ptys' = Collect(ptys_after_close(sessions, ptys, S), sessions', conn', tasks')

StoreEnv(up) == IF up THEN "store_up" ELSE "store_down"

\* handle_websocket, lines 288-301, check_connection_limit passes:
\* accept, check, track, register the connection, start the sweeper.
ConnectOk(c) ==
    /\ MayArrive(c)
    /\ \E ip \in ClientIPs(c), up \in Ups :
        /\ ~ConnectionRefused(store, ip, up)
        /\ conn' = [conn EXCEPT ![c].pc = "loop", ![c].ip = ip,
                                ![c].accepted = TRUE,
                                ![c].checked = Append(@, ip),
                                ![c].tracked = @ + 1]
        /\ store' = track_connection(
                        store_after_check_connection(store, ip, up), c, up)
        /\ last' = Event("connect", c, EmptySid, 0, StoreEnv(up), 0, NoFrame)
    /\ websocket_sessions' = Put(websocket_sessions, c, {})
    /\ sweeper' = [sweeper EXCEPT ![c].st = "sleep"]
    /\ UNCHANGED <<sessions, ptys, tasks, session_last_activity,
                   session_input_totals, now>>
    /\ UNCHANGED <<scenario, named, container>>

\* handle_websocket, lines 288-297 and 348-372, check_connection_limit
\* raises: accept, check, close(1011), then the finally block (untrack; the
\* connection has no session set and no sweeper).
ConnectRefused_served(c) ==
    /\ MayArrive(c)
    /\ \E ip \in ClientIPs(c) :
        /\ ConnectionRefused(store, ip, TRUE)
        /\ conn' = [conn EXCEPT ![c].pc = "loop", ![c].ip = ip,
                                ![c].accepted = TRUE,
                                ![c].checked = Append(@, ip),
                                ![c].limited = TRUE,
                                ![c].tracked = @ + 1]
        /\ store' = track_connection(
                        store_after_check_connection(store, ip, TRUE), c, TRUE)
    /\ last' = Event("connect", c, EmptySid, 0, "refused", 0, NoFrame)
    /\ websocket_sessions' = Put(websocket_sessions, c, {})
    /\ sweeper' = [sweeper EXCEPT ![c].st = "sleep"]
    /\ UNCHANGED <<sessions, ptys, tasks, session_last_activity,
                   session_input_totals, now, scenario, named, container>>
ConnectRefused(c) ==
    /\ MayArrive(c)
    /\ \E ip \in ClientIPs(c) :
        /\ ConnectionRefused(store, ip, TRUE)
        /\ conn' = [conn EXCEPT ![c].pc = "done", ![c].ip = ip,
                                ![c].accepted = TRUE,
                                ![c].checked = Append(@, ip),
                                ![c].limited = TRUE,
                                ![c].closeCode = 1011]
        /\ store' = untrack_connection(
                        store_after_check_connection(store, ip, TRUE), c, TRUE)
    /\ last' = Event("connect", c, EmptySid, 0, "refused", 0, NoFrame)
    /\ UNCHANGED <<sweeper, sessions, ptys, tasks, session_last_activity,
                   session_input_totals, websocket_sessions, now>>
    /\ UNCHANGED <<scenario, named, container>>

\* The session ids the finally block closes (lines 357-358).
Owned(c) == IF c \in DOMAIN websocket_sessions
            THEN websocket_sessions[c] ELSE {}

\* The finally block, lines 354-372: untrack, close every session of the
\* connection's set and drop its bookkeeping, delete the set, cancel the
\* sweeper and wait for it.
Teardown(c, st, up) ==
    /\ store' = untrack_connection(st, c, up)
    /\ conn' = [conn EXCEPT ![c].pc = "done", ![c].sid = EmptySid, ![c].pty = 0,
                            ![c].size = 0, ![c].tries = 0]
    /\ CloseSessions(Owned(c))
    /\ session_last_activity' = PopAll(session_last_activity, Owned(c))
    /\ session_input_totals' = PopAll(session_input_totals, Owned(c))
    /\ websocket_sessions' = Pop(websocket_sessions, c)
    /\ sweeper' = [sweeper EXCEPT ![c] =
                      [st |-> IF @.st \in {"sleep", "send_idle"}
                              THEN "cancelled" ELSE @.st,
                       sid |-> EmptySid, todo |-> {}]]
    /\ UNCHANGED <<now>>
\* ... reached with the store as the loop left it.
Finally(c, up) == Teardown(c, store, up)

\* receive_text raises WebSocketDisconnect (lines 339-341) or anything else
\* (lines 342-344): break, then the finally block.
Disconnect(c) ==
    /\ Loop(c)
    /\ \E up \in Ups :
        /\ Finally(c, up)
        /\ last' = Closing(Event("disconnect", c, EmptySid, 0, StoreEnv(up), 0,
                                 NoFrame),
                           Popped(sessions, Owned(c)))
    /\ UNCHANGED <<scenario, named, container>>

\* The handler task is cancelled while suspended in a send or in a write
\* that found the socket full: CancelledError
\* passes every `except Exception`, the finally block runs.  (Cancelled while
\* waiting in receive_text, the task does what Disconnect does.)
Cancel(c) ==
    /\ conn[c].pc \in {"send_created", "send_cap", "write"}
    /\ \E up \in Ups :
        /\ Finally(c, up)
        /\ last' = Closing(Event("cancel", c, EmptySid, 0, StoreEnv(up), 0,
                                 NoFrame),
                           Popped(sessions, Owned(c)))
    /\ UNCHANGED <<scenario, named, container>>

\* -------------------------------------------------- _handle_create_session
\* Reader tasks not yet spawned but owed by handlers suspended in the
\* session_created send.
Owed == Cardinality({d \in Connections : conn[d].pc = "send_created"})
MaySpawn == Cardinality(DOMAIN tasks) + Owed < MaxTasks

Adopted_none(c, s) == websocket_sessions
Adopted(c, s) == Put(websocket_sessions, c, Owned(c) \cup {s})

\* lines 75-80: the session_created frame for the session just obtained is
\* handed to the websocket; the PTYSession remembers it was announced.
session_created_late(ps, p) == ps
session_created(ps, p) == [ps EXCEPT ![p].announced = TRUE]

\* lines 57-65: no sessionId.
CreateSessionNoId(c) ==
    /\ Receive(c)
    /\ last' = Event("create_session", c, EmptySid, 0, "", 0,
                     Frame("error", "", "Missing sessionId in create_session message"))
    /\ conn' = Received(conn, c)
    /\ UNCHANGED <<sweeper, sessions, ptys, tasks, session_last_activity,
                   session_input_totals, websocket_sessions, store, now>>
    /\ UNCHANGED <<scenario, named, container>>

\* lines 67-80 with create_session returning the registered session
\* (pty_session_manager.py:49-51); suspends in the session_created send.
CreateSessionExisting(c, s) ==
    /\ Receive(c) /\ MaySpawn
    /\ s \in DOMAIN sessions
    /\ session_last_activity' = Put(session_last_activity, s, now)
    /\ session_input_totals' = Put(session_input_totals, s, 0)
    /\ websocket_sessions' = Adopted(c, s)
    /\ conn' = [Received(conn, c) EXCEPT ![c].pc = "send_created",
                            ![c].sid = s, ![c].pty = sessions[s]]
    /\ ptys' = session_created(ptys, sessions[s])
    /\ last' = Event("create_session", c, s, 0, "exec_ok", sessions[s],
                     Frame("session_created", s, ""))
    /\ UNCHANGED <<sweeper, sessions, tasks, store, now>>
    /\ named' = named \cup {s}
    /\ UNCHANGED <<scenario, container>>

\* The PTYSession built at pty_session_manager.py:82.
NewPty == Lowest((1..MaxPty) \ DOMAIN ptys)

\* lines 67-80 with create_session building a new PTYSession
\* (pty_session_manager.py:53-84); suspends in the session_created send.
CreateSessionIn(c, s, env) ==
    /\ Receive(c) /\ MaySpawn
    /\ s \notin DOMAIN sessions
    /\ Cardinality(DOMAIN ptys) < MaxPty
    /\ ptys' = session_created(
                  Put(ptys, NewPty, [sid |-> s, open |-> TRUE, read_task |-> 0,
                                     creator |-> c, written |-> <<>>,
                                     received |-> 0, resized |-> <<>>,
                                     produced |-> 0, delivered |-> <<>>,
                                     announced |-> FALSE]),
                  NewPty)
    /\ sessions' = Put(sessions, s, NewPty)
    /\ session_last_activity' = Put(session_last_activity, s, now)
    /\ session_input_totals' = Put(session_input_totals, s, 0)
    /\ websocket_sessions' = Adopted(c, s)
    /\ conn' = [Received(conn, c) EXCEPT ![c].pc = "send_created",
                            ![c].sid = s, ![c].pty = NewPty]
    /\ last' = Event("create_session", c, s, 0, env, NewPty,
                     Frame("session_created", s, ""))
    /\ UNCHANGED <<sweeper, tasks, store, now>>
    /\ named' = named \cup {s}
    /\ UNCHANGED scenario

\* ensure_container_running (container_manager.py:81-90) finds the
\* container running and returns it.
CreateSessionNew(c, s) ==
    /\ container = "running"
    /\ CreateSessionIn(c, s, "exec_ok")
    /\ UNCHANGED container

\* ... finds it in another state: container.start() (line 89), and the
\* container is returned as if it had been running.
CreateSessionStarted(c, s) ==
    /\ container \notin {"absent", "running"}
    /\ CreateSessionIn(c, s, "started")
    /\ container' = "running"

\* ... finds no container: get_container returns None (lines 76-79),
\* RuntimeError (lines 83-87), caught at terminal_bridge.py:91-98.
CreateSessionAbsent(c, s) ==
    /\ Receive(c)
    /\ s \notin DOMAIN sessions
    /\ container = "absent"
    /\ last' = Event("create_session", c, s, 0, "not_found", 0,
                     Frame("error", s, "Failed to create session"))
    /\ conn' = Received(conn, c)
    /\ UNCHANGED <<sweeper, sessions, ptys, tasks, session_last_activity,
                   session_input_totals, websocket_sessions, store, now>>
    /\ named' = named \cup {s}
    /\ UNCHANGED <<scenario, container>>

\* lines 91-98: ensure_container_running, exec_create or exec_start raises
\* before the registry is touched (pty_session_manager.py:53-80).
CreateSessionFailed(c, s) ==
    /\ Receive(c)
    /\ s \notin DOMAIN sessions
    /\ last' = Event("create_session", c, s, 0, "exec_fail", 0,
                     Frame("error", s, "Failed to create session"))
    /\ conn' = Received(conn, c)
    /\ UNCHANGED <<sweeper, sessions, ptys, tasks, session_last_activity,
                   session_input_totals, websocket_sessions, store, now>>
    /\ named' = named \cup {s}
    /\ UNCHANGED <<scenario, container>>

NewTask == Lowest((1..MaxTasks) \ DOMAIN tasks)

\* lines 82-89, after the send: session.read_task = create_task(...), on the
\* PTYSession object the handler holds.
CreateSent(c) ==
    /\ conn[c].pc = "send_created"
    /\ tasks' = Put(tasks, NewTask,
                    [sid |-> conn[c].sid, conn |-> c, pty |-> 0, st |-> "spawned"])
    /\ conn' = [conn EXCEPT ![c].pc = "loop", ![c].sid = EmptySid, ![c].pty = 0]
    /\ ptys' = Collect([ptys EXCEPT ![conn[c].pty].read_task = NewTask],
                       sessions, conn', tasks')
    /\ last' = Event("create_sent", c, conn[c].sid, 0, "", conn[c].pty, NoFrame)
    /\ UNCHANGED <<sweeper, sessions, session_last_activity,
                   session_input_totals, websocket_sessions, store, now>>
    /\ UNCHANGED <<scenario, named, container>>

\* ------------------------------------------------------- read_from_session
\* pty_session_manager.py:127-130: the task looks its session up by id, and
\* returns when there is none.
ReaderStart(t) ==
    /\ tasks[t].st = "spawned"
    /\ tasks' = IF tasks[t].sid \in DOMAIN sessions
                THEN [tasks EXCEPT ![t].st = "running",
                                   ![t].pty = sessions[tasks[t].sid]]
                ELSE Pop(tasks, t)
    /\ ptys' = Collect(ptys, sessions, conn, tasks')
    /\ last' = Event("reader_start", tasks[t].conn, tasks[t].sid, 0, "", 0, NoFrame)
    /\ UNCHANGED <<conn, sweeper, sessions, session_last_activity,
                   session_input_totals, websocket_sessions, store, now>>
    /\ UNCHANGED <<scenario, named, container>>

\* lines 136-144: sock_recv returns bytes; an output frame goes to the
\* websocket the task was created for.
ReaderOutput(t) ==
    /\ tasks[t].st = "running"
    /\ ptys[tasks[t].pty].open
    /\ last' = Event("output", tasks[t].conn, tasks[t].sid, 0, "", tasks[t].pty,
                     Frame("output", tasks[t].sid, ""))
    /\ UNCHANGED <<conn, sweeper, sessions, ptys, tasks, session_last_activity,
                   session_input_totals, websocket_sessions, store, now>>
    /\ UNCHANGED <<scenario, named, container>>

\* lines 145-153: sock_recv returns b"" (the shell exited) or raises OSError
\* (always, once the socket is closed under a reader nobody cancelled); the
\* loop breaks and the task returns.  Nothing else is done.
ReaderEnd(t) ==
    /\ tasks[t].st = "running"
    /\ tasks' = Pop(tasks, t)
    /\ ptys' = Collect(ptys, sessions, conn, tasks')
    /\ last' = Event("reader_end", tasks[t].conn, tasks[t].sid, 0,
                     IF ptys[tasks[t].pty].open THEN "eof" ELSE "oserror",
                     tasks[t].pty, NoFrame)
    /\ UNCHANGED <<conn, sweeper, sessions, session_last_activity,
                   session_input_totals, websocket_sessions, store, now>>
    /\ UNCHANGED <<scenario, named, container>>

\* ------------------------------------------------------------ _handle_input
DataSizes == {0, 1, MAX_INPUT_SIZE + 1}   \* len(data.encode("utf-8"))

\* lines 107-109: no sessionId, silent return.
InputNoId(c) ==
    /\ Receive(c)
    /\ last' = Event("input", c, EmptySid, 0, "", 0, NoFrame)
    /\ conn' = Received(conn, c)
    /\ UNCHANGED <<sweeper, sessions, ptys, tasks, session_last_activity,
                   session_input_totals, websocket_sessions, store, now>>
    /\ UNCHANGED <<scenario, named, container>>

\* lines 111-119: get_session returns None (data is not looked at).
InputNotFound_counted(c, s) ==
    /\ Receive(c)
    /\ s \notin DOMAIN sessions
    /\ store' = store_after_check_command(store, conn[c].ip, TRUE)
    /\ last' = Event("input", c, s, 0, "", 0,
                     Frame("error", s, "Session not found"))
    /\ conn' = Received(conn, c)
    /\ named' = named \cup {s}
    /\ UNCHANGED <<sweeper, sessions, ptys, tasks, session_last_activity,
                   session_input_totals, websocket_sessions, now, scenario,
                   container>>
InputNotFound(c, s) ==
    /\ Receive(c)
    /\ s \notin DOMAIN sessions
    /\ last' = Event("input", c, s, 0, "", 0,
                     Frame("error", s, "Session not found"))
    /\ conn' = Received(conn, c)
    /\ UNCHANGED <<sweeper, sessions, ptys, tasks, session_last_activity,
                   session_input_totals, websocket_sessions, store, now>>
    /\ named' = named \cup {s}
    /\ UNCHANGED <<scenario, container>>

\* lines 121-128: check_command_limit(client_ip) returns False.
InputRateLimited(c, s) ==
    /\ Receive(c)
    /\ s \in DOMAIN sessions
    /\ ~CommandAllowed(store, conn[c].ip, TRUE)
    /\ store' = store_after_check_command(store, conn[c].ip, TRUE)
    /\ last' = Event("input", c, s, 0, "store_up", sessions[s],
                     Frame("error", s, "Rate limit exceeded. Please wait."))
    /\ conn' = Received(conn, c)
    /\ UNCHANGED <<sweeper, sessions, ptys, tasks, session_last_activity,
                   session_input_totals, websocket_sessions, now>>
    /\ named' = named \cup {s}
    /\ UNCHANGED <<scenario, container>>

\* lines 121-122 passed: the command was counted and allowed.
InputCounted(c, s, up) ==
    /\ Receive(c)
    /\ s \in DOMAIN sessions
    /\ CommandAllowed(store, conn[c].ip, up)
    /\ store' = store_after_check_command(store, conn[c].ip, up)

\* lines 130-132: empty data, silent return.
InputEmpty(c, s) ==
    /\ \E up \in Ups : InputCounted(c, s, up)
    /\ last' = Event("input", c, s, 0, "", sessions[s], NoFrame)
    /\ conn' = Received(conn, c)
    /\ UNCHANGED <<sweeper, sessions, ptys, tasks, session_last_activity,
                   session_input_totals, websocket_sessions, now>>
    /\ named' = named \cup {s}
    /\ UNCHANGED <<scenario, container>>

\* lines 134-143: more than MAX_INPUT_SIZE bytes.
InputTooLarge(c, s) ==
    /\ \E up \in Ups : InputCounted(c, s, up)
    /\ \E n \in DataSizes :
         /\ n > MAX_INPUT_SIZE
         /\ last' = Event("input", c, s, n, "", sessions[s],
                          Frame("error", s, "Input too large. Maximum size is 64KB."))
    /\ conn' = Received(conn, c)
    /\ UNCHANGED <<sweeper, sessions, ptys, tasks, session_last_activity,
                   session_input_totals, websocket_sessions, now>>
    /\ named' = named \cup {s}
    /\ UNCHANGED <<scenario, container>>

\* session_input_totals.get(session_id, 0) + len(encoded_data), line 156
TotalAfter(s, n) ==
    (IF s \in DOMAIN session_input_totals THEN session_input_totals[s] ELSE 0) + n

Disowned_kept(c, s) == websocket_sessions
Disowned(c, s) ==
    IF c \in DOMAIN websocket_sessions
    THEN Put(websocket_sessions, c, websocket_sessions[c] \ {s})
    ELSE websocket_sessions

\* lines 156-170 up to the await of the error send: the cumulative count
\* passes MAX_TOTAL_INPUT_PER_SESSION.  (Takes more than MaxFrames frames of
\* at most MAX_INPUT_SIZE bytes, so Spec never gets here.)
InputOverCap(c, s) ==
    /\ \E up \in Ups : InputCounted(c, s, up)
    /\ \E n \in DataSizes :
         /\ 0 < n /\ n <= MAX_INPUT_SIZE
         /\ TotalAfter(s, n) > MAX_TOTAL_INPUT_PER_SESSION
         /\ session_input_totals' = Put(session_input_totals, s, TotalAfter(s, n))
         /\ last' = Event("input", c, s, n, "", sessions[s],
                          Frame("error", s, "Session input limit exceeded (10MB). Please reconnect."))
    /\ conn' = [Received(conn, c) EXCEPT ![c].pc = "send_cap", ![c].sid = s]
    /\ UNCHANGED <<sweeper, sessions, ptys, tasks, session_last_activity,
                   websocket_sessions, now>>
    /\ named' = named \cup {s}
    /\ UNCHANGED <<scenario, container>>

\* lines 167-170, after the send: close the session, drop it from the
\* connection's set.
CapSent(c) ==
    /\ conn[c].pc = "send_cap"
    /\ conn' = [conn EXCEPT ![c].pc = "loop", ![c].sid = EmptySid]
    /\ CloseSessions({conn[c].sid})
    /\ websocket_sessions' = Disowned(c, conn[c].sid)
    /\ last' = Event("cap_sent", c, conn[c].sid, 0, "",
                     IF conn[c].sid \in DOMAIN sessions
                     THEN sessions[conn[c].sid] ELSE 0,
                     NoFrame)
    /\ UNCHANGED <<sweeper, session_last_activity, session_input_totals,
                   store, now>>
    /\ UNCHANGED <<scenario, named, container>>

\* PTYSession.sock receives the frame's bytes
\* (loop.sock_sendall(session.sock, ...), pty_session_manager.py:117); each
\* PTY's `written` lists the connections whose frames it received.
sock_sendall_other(ps, p, tok) ==
    [i \in DOMAIN ps |->
        IF i # p THEN [ps[i] EXCEPT !.written = Append(@, tok)] ELSE ps[i]]
sock_sendall(ps, p, tok) == [ps EXCEPT ![p].written = Append(@, tok)]
\* ... and `received` counts the bytes (data[total_sent:], all of them).
sock_sent(ps, p, n) == [ps EXCEPT ![p].received = @ + n]

\* lines 156-175 with write_to_session sending every byte
\* (pty_session_manager.py:107-118).
InputWrite(c, s) ==
    /\ \E up \in Ups : InputCounted(c, s, up)
    /\ \E n \in DataSizes :
         /\ 0 < n /\ n <= MAX_INPUT_SIZE
         /\ TotalAfter(s, n) <= MAX_TOTAL_INPUT_PER_SESSION
         /\ session_input_totals' = Put(session_input_totals, s, TotalAfter(s, n))
         /\ last' = Event("input", c, s, n, "write_ok", sessions[s], NoFrame)
         /\ ptys' = sock_sent(sock_sendall(ptys, sessions[s], c), sessions[s], n)
    /\ session_last_activity' = Put(session_last_activity, s, now)
    /\ conn' = Received(conn, c)
    /\ UNCHANGED <<sweeper, sessions, tasks, websocket_sessions, now>>
    /\ named' = named \cup {s}
    /\ UNCHANGED <<scenario, container>>

\* lines 156-175 with sock_sendall raising OSError: write_to_session closes
\* the session itself and returns (pty_session_manager.py:121-124); the
\* handler's own except clause is not reached.
InputWriteError(c, s) ==
    /\ \E up \in Ups : InputCounted(c, s, up)
    /\ \E n \in DataSizes :
         /\ 0 < n /\ n <= MAX_INPUT_SIZE
         /\ TotalAfter(s, n) <= MAX_TOTAL_INPUT_PER_SESSION
         /\ session_input_totals' = Put(session_input_totals, s, TotalAfter(s, n))
         /\ last' = Event("input", c, s, n, "write_oserror", sessions[s], NoFrame)
    /\ session_last_activity' = Put(session_last_activity, s, now)
    /\ conn' = Received(conn, c)
    /\ CloseSessions({s})
    /\ UNCHANGED <<sweeper, websocket_sessions, now>>
    /\ named' = named \cup {s}
    /\ UNCHANGED <<scenario, container>>

\* lines 156-175 with the first sock_sendall finding the socket full
\* (pty_session_manager.py:107-120): the handler is suspended, holding the
\* PTYSession it looked up, until the socket takes the bytes, fails, or is
\* found full again after the 0.01 s sleep.
InputWriteBlocked(c, s) ==
    /\ \E up \in Ups : InputCounted(c, s, up)
    /\ \E n \in DataSizes :
         /\ 0 < n /\ n <= MAX_INPUT_SIZE
         /\ TotalAfter(s, n) <= MAX_TOTAL_INPUT_PER_SESSION
         /\ session_input_totals' = Put(session_input_totals, s, TotalAfter(s, n))
         /\ last' = Event("input", c, s, n, "write_blocked", sessions[s], NoFrame)
         /\ conn' = [Received(conn, c) EXCEPT ![c].pc = "write", ![c].sid = s,
                                 ![c].pty = sessions[s], ![c].size = n,
                                 ![c].tries = 1]
    /\ session_last_activity' = Put(session_last_activity, s, now)
    /\ UNCHANGED <<sweeper, sessions, ptys, tasks, websocket_sessions, now>>
    /\ named' = named \cup {s}
    /\ UNCHANGED <<scenario, container>>

\* pty_session_manager.py:115-120: the next attempt finds the socket full
\* again.  The code counts nothing (total_sent stays 0); `tries` is the
\* number of attempts so far, modulo TriesWrap.
WriteBlocked(c) ==
    /\ conn[c].pc = "write"
    /\ ptys[conn[c].pty].open
    /\ conn' = [conn EXCEPT ![c].tries = (@ + 1) % TriesWrap]
    /\ last' = Event("write_retry", c, conn[c].sid, conn[c].size,
                     "write_blocked", conn[c].pty, NoFrame)
    /\ UNCHANGED <<sweeper, sessions, ptys, tasks, session_last_activity,
                   session_input_totals, websocket_sessions, store, now>>
    /\ UNCHANGED <<scenario, named, container>>

\* pty_session_manager.py:117-118: the socket takes the bytes.
WriteSent(c) ==
    /\ conn[c].pc = "write"
    /\ ptys[conn[c].pty].open
    /\ conn' = [conn EXCEPT ![c].pc = "loop", ![c].sid = EmptySid, ![c].pty = 0,
                            ![c].size = 0, ![c].tries = 0]
    /\ ptys' = sock_sent(sock_sendall(ptys, conn[c].pty, c),
                         conn[c].pty, conn[c].size)
    /\ last' = Event("write_retry", c, conn[c].sid, conn[c].size,
                     "write_ok", conn[c].pty, NoFrame)
    /\ UNCHANGED <<sweeper, sessions, tasks, session_last_activity,
                   session_input_totals, websocket_sessions, store, now>>
    /\ UNCHANGED <<scenario, named, container>>

\* pty_session_manager.py:121-124: sock_sendall raises OSError (always, once
\* the socket has been closed under the writer): whatever is registered
\* under the id now is closed, write_to_session returns.
WriteFailed(c) ==
    /\ conn[c].pc = "write"
    /\ conn' = [conn EXCEPT ![c].pc = "loop", ![c].sid = EmptySid, ![c].pty = 0,
                            ![c].size = 0, ![c].tries = 0]
    /\ CloseSessions({conn[c].sid})
    /\ last' = Event("write_retry", c, conn[c].sid, conn[c].size,
                     "write_oserror", conn[c].pty, NoFrame)
    /\ UNCHANGED <<sweeper, session_last_activity, session_input_totals,
                   websocket_sessions, store, now>>
    /\ UNCHANGED <<scenario, named, container>>

\* ----------------------------------------------------------- _handle_resize
\* What json.loads makes of the "cols" or "rows" of a frame: an int, a bool
\* (JSON true/false), a float, a str, None (JSON null), or no key at all.
\* `val` is the number Python computes with: True is 1, False is 0.
JInt(n)   == [kind |-> "int", val |-> n]
JBool(b)  == [kind |-> "bool", val |-> IF b THEN 1 ELSE 0]
JFloat    == [kind |-> "float", val |-> 0]
JStr      == [kind |-> "str", val |-> 0]
JNull     == [kind |-> "NoneType", val |-> 0]
JAbsent   == [kind |-> "absent", val |-> 0]
Dims == {JInt(MIN_TERMINAL_COLS - 1), JInt(MIN_TERMINAL_COLS),
         JInt(MAX_TERMINAL_COLS), JInt(MAX_TERMINAL_COLS + 1),
         JBool(TRUE), JBool(FALSE), JFloat, JStr, JNull, JAbsent}

\* msg.get(key, default), lines 196-197
get(v, default) == IF v = JAbsent THEN default ELSE v

\* isinstance(v, int): bool is a subclass of int.
isinstance_int(v) == v.kind \in {"int", "bool"}

\* lines 199-224: what the validation answers, "" when it passes.
ResizeError(cols, rows) ==
    IF ~isinstance_int(cols) \/ ~isinstance_int(rows)
    THEN "Invalid resize dimensions type"
    ELSE IF cols.val < MIN_TERMINAL_COLS \/ cols.val > MAX_TERMINAL_COLS
    THEN "Invalid cols value"
    ELSE IF rows.val < MIN_TERMINAL_ROWS \/ rows.val > MAX_TERMINAL_ROWS
    THEN "Invalid rows value"
    ELSE ""

\* client.api.exec_resize(exec_id, height=rows, width=cols)
\* (pty_session_manager.py:102): each PTY's `resized` lists the calls made for
\* its exec.
exec_resize_swapped(ps, p, height, width) ==
    [ps EXCEPT ![p].resized = Append(@, [width |-> height, height |-> width])]
exec_resize(ps, p, height, width) ==
    [ps EXCEPT ![p].resized = Append(@, [width |-> width, height |-> height])]

\* lines 192-194: no sessionId, silent return.
ResizeNoId(c) ==
    /\ Receive(c)
    /\ last' = Event("resize", c, EmptySid, 0, "", 0, NoFrame)
    /\ conn' = Received(conn, c)
    /\ UNCHANGED <<sweeper, sessions, ptys, tasks, session_last_activity,
                   session_input_totals, websocket_sessions, store, now>>
    /\ UNCHANGED <<scenario, named, container>>

\* lines 196-224: the validation refuses the frame.
ResizeInvalid(c, s) ==
    /\ Receive(c)
    /\ \E jc, jr \in Dims :
         /\ ResizeError(get(jc, JInt(80)), get(jr, JInt(24))) # ""
         /\ last' = Resizing(
                Event("resize", c, s, 0, "",
                      IF s \in DOMAIN sessions THEN sessions[s] ELSE 0,
                      Frame("error", s,
                            ResizeError(get(jc, JInt(80)), get(jr, JInt(24))))),
                jc, jr)
    /\ conn' = Received(conn, c)
    /\ UNCHANGED <<sweeper, sessions, ptys, tasks, session_last_activity,
                   session_input_totals, websocket_sessions, store, now>>
    /\ named' = named \cup {s}
    /\ UNCHANGED <<scenario, container>>

\* lines 226-227 with resize_session finding no session
\* (pty_session_manager.py:96-99): a warning is logged.
ResizeNotFound(c, s) ==
    /\ Receive(c)
    /\ s \notin DOMAIN sessions
    /\ \E jc, jr \in Dims :
         /\ ResizeError(get(jc, JInt(80)), get(jr, JInt(24))) = ""
         /\ last' = Resizing(Event("resize", c, s, 0, "", 0, NoFrame), jc, jr)
    /\ conn' = Received(conn, c)
    /\ UNCHANGED <<sweeper, sessions, ptys, tasks, session_last_activity,
                   session_input_totals, websocket_sessions, store, now>>
    /\ named' = named \cup {s}
    /\ UNCHANGED <<scenario, container>>

\* lines 226-227 with resize_session calling exec_resize
\* (pty_session_manager.py:101-105): the call returns, or raises and the
\* exception is logged there; the handler's except clause is not reached.
ResizeCall(c, s) ==
    /\ Receive(c)
    /\ s \in DOMAIN sessions
    /\ \E jc, jr \in Dims, env \in {"resize_ok", "resize_error"} :
         /\ ResizeError(get(jc, JInt(80)), get(jr, JInt(24))) = ""
         /\ ptys' = exec_resize(ptys, sessions[s],
                                get(jr, JInt(24)), get(jc, JInt(80)))
         /\ last' = Resizing(Event("resize", c, s, 0, env, sessions[s], NoFrame),
                             jc, jr)
    /\ conn' = Received(conn, c)
    /\ UNCHANGED <<sweeper, sessions, tasks, session_last_activity,
                   session_input_totals, websocket_sessions, store, now>>
    /\ named' = named \cup {s}
    /\ UNCHANGED <<scenario, container>>

\* --------------------------------------------------- _handle_close_session
\* lines 244-246: no sessionId, silent return.
CloseSessionNoId(c) ==
    /\ Receive(c)
    /\ last' = Event("close_session", c, EmptySid, 0, "", 0, NoFrame)
    /\ conn' = Received(conn, c)
    /\ UNCHANGED <<sweeper, sessions, ptys, tasks, session_last_activity,
                   session_input_totals, websocket_sessions, store, now>>
    /\ UNCHANGED <<scenario, named, container>>

\* lines 248-259.
CloseSession(c, s) ==
    /\ Receive(c)
    /\ conn' = Received(conn, c)
    /\ CloseSessions({s})
    /\ websocket_sessions' = Disowned(c, s)
    /\ session_last_activity' = Pop(session_last_activity, s)
    /\ session_input_totals' = Pop(session_input_totals, s)
    /\ last' = Event("close_session", c, s, 0, "",
                     IF s \in DOMAIN sessions THEN sessions[s] ELSE 0,
                     Frame("session_closed", s, ""))
    /\ UNCHANGED <<sweeper, store, now>>
    /\ named' = named \cup {s}
    /\ UNCHANGED <<scenario, container>>

\* ---------------------------------------------------- _check_idle_timeouts
\* lines 270-273: the sessions of the connection idle for more than
\* SESSION_IDLE_TIMEOUT.
Idle_all(c) == Owned(c)
Idle(c) ==
    {s \in Owned(c) :
        now - (IF s \in DOMAIN session_last_activity
               THEN session_last_activity[s] ELSE now) > SESSION_IDLE_TIMEOUT}

IdleMsg == "Session idle timeout (30 minutes). Closing connection."

\* lines 263-282: the sleep is over and sessions_to_close is not empty; the
\* first idle-timeout error is sent (list(set) fixes some order).  A wake-up
\* that finds nothing idle changes nothing and goes back to sleep; the break
\* of line 268 needs the connection's set deleted under a live sweeper, and
\* the finally block deletes it and cancels the sweeper in one step.
SweeperWakeIdle(c) ==
    /\ sweeper[c].st = "sleep"
    /\ \E s \in Idle(c) :
        /\ sweeper' = [sweeper EXCEPT ![c] =
                          [st |-> "send_idle", sid |-> s, todo |-> Idle(c) \ {s}]]
        /\ last' = Event("sweep", c, s, 0, "", 0, Frame("error", s, IdleMsg))
    /\ UNCHANGED <<conn, sessions, ptys, tasks, session_last_activity,
                   session_input_totals, websocket_sessions, store, now>>
    /\ UNCHANGED <<scenario, named, container>>

\* lines 283-286 after the send: whatever is registered under the id now is
\* closed and its bookkeeping dropped.
SweeperClose(c) ==
    /\ conn' = conn
    /\ CloseSessions({sweeper[c].sid})
    /\ websocket_sessions' =
         Put(websocket_sessions, c, websocket_sessions[c] \ {sweeper[c].sid})
    /\ session_last_activity' = Pop(session_last_activity, sweeper[c].sid)
    /\ session_input_totals' = Pop(session_input_totals, sweeper[c].sid)
    /\ UNCHANGED <<store, now>>

\* ... and the next session of sessions_to_close gets its error frame.
SweeperSentNext(c) ==
    /\ sweeper[c].st = "send_idle"
    /\ SweeperClose(c)
    /\ \E s \in sweeper[c].todo :
        /\ sweeper' = [sweeper EXCEPT ![c].sid = s, ![c].todo = @ \ {s}]
        /\ last' = Event("sweep_sent", c, s, 0, "", 0, Frame("error", s, IdleMsg))
    /\ UNCHANGED <<scenario, named, container>>

\* ... and the list is done: sleep again.
SweeperSentLast(c) ==
    /\ sweeper[c].st = "send_idle"
    /\ sweeper[c].todo = {}
    /\ SweeperClose(c)
    /\ sweeper' = [sweeper EXCEPT ![c] =
                      [st |-> "sleep", sid |-> EmptySid, todo |-> {}]]
    /\ last' = Event("sweep_sent", c, EmptySid, 0, "", 0, NoFrame)
    /\ UNCHANGED <<scenario, named, container>>

\* ------------------------------------------------------------- environment
\* Time passes, TickStep seconds at once.  A counter key lives `ttl` seconds
\* from the increment that created it (redis.expire, rate_limiter.py:30-31
\* and 48-49); it was created no later than the previous reading of the
\* clock, so after `step` seconds it is gone when step >= ttl.
Expired(count, ttl, step) ==
    [i \in IPs |-> IF step >= ttl THEN 0 ELSE count[i]]

Tick ==
    /\ scenario = "clock"
    /\ now < MaxTicks * TickStep
    /\ now' = now + TickStep
    /\ store' = [store EXCEPT
                   !.conns = Expired(store.conns, 60, TickStep),
                   !.cmds = Expired(store.cmds, 3600, TickStep)]
    /\ last' = Event("tick", "", EmptySid, 0, "", 0, NoFrame)
    /\ UNCHANGED <<conn, sweeper, sessions, ptys, tasks, session_last_activity,
                   session_input_totals, websocket_sessions>>
    /\ UNCHANGED <<scenario, named, container>>

\* ------------------------------------------------------------------- Next
Next ==
    \/ \E c \in Connections :
         \/ ConnectOk(c) \/ ConnectRefused(c) \/ Disconnect(c) \/ Cancel(c)
         \/ CreateSessionNoId(c) \/ CreateSent(c)
         \/ InputNoId(c) \/ CloseSessionNoId(c)
         \/ SweeperWakeIdle(c) \/ SweeperSentNext(c) \/ SweeperSentLast(c)
    \/ \E c \in Connections, s \in Nameable : CreateSessionExisting(c, s)
    \/ \E c \in Connections, s \in Nameable : CreateSessionNew(c, s)
    \/ \E c \in Connections, s \in Nameable : CreateSessionFailed(c, s)
    \/ \E c \in Connections, s \in Nameable : InputNotFound(c, s)
    \/ \E c \in Connections, s \in Nameable : InputRateLimited(c, s)
    \/ \E c \in Connections, s \in Nameable : InputEmpty(c, s)
    \/ \E c \in Connections, s \in Nameable : InputTooLarge(c, s)
    \/ \E c \in Connections, s \in Nameable : InputWrite(c, s)
    \/ \E c \in Connections, s \in Nameable : InputWriteError(c, s)
    \/ \E c \in Connections, s \in Nameable : CloseSession(c, s)
    \/ \E t \in DOMAIN tasks : ReaderStart(t)
    \/ \E t \in DOMAIN tasks : ReaderOutput(t)
    \/ \E t \in DOMAIN tasks : ReaderEnd(t)
    \/ Tick

Spec == Init /\ [][Next]_vars

\* ------------------------------------------- a session near its byte ceiling
\* MAX_TOTAL_INPUT_PER_SESSION is 160 frames of MAX_INPUT_SIZE bytes away
\* from a new session.  SpecCap starts where such a run has arrived: the
\* first connection is being served and owns one session, announced, its
\* reader running, whose PTY has received every byte counted for it and is
\* one frame away from the ceiling or at it.  The counters of the rate
\* limiter have expired and Redis answers every call; the session was last
\* active now.  (`written` lists the frames a PTY receives from here on.)
NearCap == {MAX_TOTAL_INPUT_PER_SESSION - 1, MAX_TOTAL_INPUT_PER_SESSION}

\* The first connection being served, with one session whose PTY has
\* received `total` bytes.
Serving(total) ==
    /\ conn = [c \in Connections |->
                 IF c = First
                 THEN [pc |-> "loop", ip |-> "ip1", sid |-> EmptySid, pty |-> 0,
                       accepted |-> TRUE, closeCode |-> 0,
                       checked |-> <<"ip1">>, limited |-> FALSE, tracked |-> 1,
                       frames |-> 0, size |-> 0, tries |-> 0]
                 ELSE [pc |-> "new", ip |-> "", sid |-> EmptySid, pty |-> 0,
                       accepted |-> FALSE, closeCode |-> 0,
                       checked |-> <<>>, limited |-> FALSE, tracked |-> 0,
                       frames |-> 0, size |-> 0, tries |-> 0]]
    /\ sweeper = [c \in Connections |->
                    [st |-> IF c = First THEN "sleep" ELSE "none",
                     sid |-> EmptySid, todo |-> {}]]
    /\ sessions = Put(EmptyDict, SessionOrder[1], 1)
    /\ ptys = Put(EmptyDict, 1,
                  [sid |-> SessionOrder[1], open |-> TRUE, read_task |-> 1,
                   creator |-> First, written |-> <<>>,
                   received |-> total, resized |-> <<>>,
                   produced |-> 0, delivered |-> <<>>,
                   announced |-> TRUE])
    /\ session_input_totals = Put(EmptyDict, SessionOrder[1], total)
    /\ tasks = Put(EmptyDict, 1, [sid |-> SessionOrder[1], conn |-> First,
                                  pty |-> 1, st |-> "running"])
    /\ session_last_activity = Put(EmptyDict, SessionOrder[1], 0)
    /\ websocket_sessions = Put(EmptyDict, First, {SessionOrder[1]})
    /\ store = [conns |-> [i \in IPs |-> 0], cmds |-> [i \in IPs |-> 0],
                active |-> {First}]
    /\ now = 0
    /\ scenario = "clock"
    /\ named = {SessionOrder[1]}
    /\ container = "running"
    /\ last = Event("init", "", EmptySid, 0, "", 0, NoFrame)

InitCap == \E total \in NearCap : Serving(total)

\* What happens before the clock is read again: every handler; no
\* connection is refused and the sweeper finds nothing idle.
NextCap ==
    \/ \E c \in Connections :
         \/ ConnectOk(c) \/ Disconnect(c) \/ Cancel(c)
         \/ CreateSessionNoId(c) \/ CreateSent(c)
         \/ InputNoId(c) \/ CloseSessionNoId(c) \/ CapSent(c)
    \/ \E c \in Connections, s \in Nameable : CreateSessionExisting(c, s)
    \/ \E c \in Connections, s \in Nameable : CreateSessionNew(c, s)
    \/ \E c \in Connections, s \in Nameable : CreateSessionFailed(c, s)
    \/ \E c \in Connections, s \in Nameable : InputNotFound(c, s)
    \/ \E c \in Connections, s \in Nameable : InputRateLimited(c, s)
    \/ \E c \in Connections, s \in Nameable : InputEmpty(c, s)
    \/ \E c \in Connections, s \in Nameable : InputTooLarge(c, s)
    \/ \E c \in Connections, s \in Nameable : InputOverCap(c, s)
    \/ \E c \in Connections, s \in Nameable : InputWrite(c, s)
    \/ \E c \in Connections, s \in Nameable : InputWriteError(c, s)
    \/ \E c \in Connections, s \in Nameable : CloseSession(c, s)
    \/ \E t \in DOMAIN tasks : ReaderStart(t)
    \/ \E t \in DOMAIN tasks : ReaderOutput(t)
    \/ \E t \in DOMAIN tasks : ReaderEnd(t)

SpecCap == InitCap /\ [][NextCap]_vars

\* ------------------------------------------------- a write to a full socket
\* SpecWrite follows a served connection with a new session through writes
\* that may find the socket full.  The event loop resumes a suspended writer
\* whenever its sleep is over or the socket has something to say, so the
\* writer's next attempt always comes; what the socket answers is up to the
\* process behind it.
InitWrite == Serving(0)

WriteAttempt(c) == WriteBlocked(c) \/ WriteSent(c) \/ WriteFailed(c)

NextWrite ==
    \/ \E c \in Connections :
         \/ ConnectOk(c) \/ Disconnect(c) \/ Cancel(c)
         \/ WriteBlocked(c) \/ WriteSent(c) \/ WriteFailed(c)
    \/ \E c \in Connections, s \in Nameable : InputRateLimited(c, s)
    \/ \E c \in Connections, s \in Nameable : InputWrite(c, s)
    \/ \E c \in Connections, s \in Nameable : InputWriteError(c, s)
    \/ \E c \in Connections, s \in Nameable : InputWriteBlocked(c, s)
    \/ \E c \in Connections, s \in Nameable : CloseSession(c, s)
    \/ \E t \in DOMAIN tasks : ReaderOutput(t)
    \/ \E t \in DOMAIN tasks : ReaderEnd(t)

\* ------------------------------------------------------------ resize frames
\* SpecResize follows one served connection with a new session through
\* resize frames, the opening and closing of sessions and what their readers
\* do.
InitResize == Serving(0)

NextResize ==
    \/ \E c \in Connections :
         \/ Disconnect(c) \/ Cancel(c) \/ CreateSent(c)
         \/ ResizeNoId(c)
    \/ \E c \in Connections, s \in Nameable : CreateSessionNew(c, s)
    \/ \E c \in Connections, s \in Nameable : ResizeInvalid(c, s)
    \/ \E c \in Connections, s \in Nameable : ResizeNotFound(c, s)
    \/ \E c \in Connections, s \in Nameable : ResizeCall(c, s)
    \/ \E c \in Connections, s \in Nameable : CloseSession(c, s)
    \/ \E t \in DOMAIN tasks : ReaderStart(t)
    \/ \E t \in DOMAIN tasks : ReaderOutput(t)
    \/ \E t \in DOMAIN tasks : ReaderEnd(t)

SpecResize == InitResize /\ [][NextResize]_vars

SpecWrite ==
    /\ InitWrite
    /\ [][NextWrite]_vars
    /\ \A c \in Connections : WF_vars(WriteAttempt(c))

\* ------------------------------------------------------ the dispatch loop
\* What the text of a frame can be, as lines 307-337 tell frames apart:
\* not JSON at all; JSON nested deeper than the decoder recurses (a few
\* thousand "[" fit in 64 KiB); a JSON value that is no object; an object
\* without "type"; an object whose "type" names no handler; a frame for a
\* handler.
Texts == {"garbage", "nested", "array", "no_type", "type_other", "handled"}
FrameSizes == {1, MAX_WEBSOCKET_MESSAGE_SIZE, MAX_WEBSOCKET_MESSAGE_SIZE + 1}

\* line 307: len(data.encode("utf-8")) > MAX_WEBSOCKET_MESSAGE_SIZE
TooLarge_from(n) == n >= MAX_WEBSOCKET_MESSAGE_SIZE
TooLarge(n) == n > MAX_WEBSOCKET_MESSAGE_SIZE

\* json.loads (line 318): the exception it raises, or the kind of value.
json_loads(text) ==
    CASE text = "garbage" -> "JSONDecodeError"
      [] text = "nested" -> "RecursionError"
      [] OTHER -> text

\* lines 317-337 for a frame no handler gets: `continue` (line 320), the
\* warning of line 334 or of line 337, or the exception leaves the inner
\* try, which catches json.JSONDecodeError only.
Ignored(text) ==
    json_loads(text) \in {"JSONDecodeError", "array", "no_type", "type_other"}

\* lines 307-315: the frame is over the size limit, whatever it holds.
FrameTooLarge(c) ==
    /\ Receive(c)
    /\ \E n \in FrameSizes, text \in Texts :
        /\ TooLarge(n)
        /\ last' = Event("frame", c, EmptySid, n, text, 0,
                         Frame("error", EmptySid,
                               "Message too large. Maximum size is 64KB."))
    /\ conn' = Received(conn, c)
    /\ UNCHANGED <<sweeper, sessions, ptys, tasks, session_last_activity,
                   session_input_totals, websocket_sessions, store, now>>
    /\ UNCHANGED <<scenario, named, container>>

\* lines 317-337: a frame within the limit that no handler gets.
FrameIgnored(c) ==
    /\ Receive(c)
    /\ \E n \in FrameSizes, text \in Texts :
        /\ ~TooLarge(n)
        /\ Ignored(text)
        /\ last' = Event("frame", c, EmptySid, n, text, 0, NoFrame)
    /\ conn' = Received(conn, c)
    /\ UNCHANGED <<sweeper, sessions, ptys, tasks, session_last_activity,
                   session_input_totals, websocket_sessions, store, now>>
    /\ UNCHANGED <<scenario, named, container>>

\* line 318 raises RecursionError, which is no JSONDecodeError: lines
\* 342-344 log it and break, then the finally block.
FrameRaised(c) ==
    /\ Receive(c)
    /\ \E n \in FrameSizes, text \in Texts, up \in Ups :
        /\ ~TooLarge(n)
        /\ json_loads(text) = "RecursionError"
        /\ Finally(c, up)
        /\ last' = Closing(Event("frame", c, EmptySid, n, text, 0, NoFrame),
                           Popped(sessions, Owned(c)))
    /\ UNCHANGED <<scenario, named, container>>

\* _handle_input with "data" a number, a list or an object: lines 107-132
\* pass (the session exists, the command is counted and allowed, the value
\* is truthy), line 134 raises AttributeError, which nothing in the handler
\* catches: lines 342-344 log it and break, then the finally block.
InputNotText(c, s) ==
    /\ Receive(c)
    /\ s \in DOMAIN sessions
    /\ \E up \in Ups :
        /\ CommandAllowed(store, conn[c].ip, up)
        /\ Teardown(c, store_after_check_command(store, conn[c].ip, up), up)
        /\ last' = Closing(Event("input", c, s, 0, "AttributeError",
                                 sessions[s], NoFrame),
                           Popped(sessions, Owned(c)))
    /\ named' = named \cup {s}
    /\ UNCHANGED <<scenario, container>>

\* SpecDispatch follows the connections from a served one with a new
\* session through frames of every kind, whole sessions and what their
\* readers do.
InitDispatch == Serving(0)

NextDispatch ==
    \/ \E c \in Connections :
         \/ ConnectOk(c) \/ Disconnect(c) \/ Cancel(c) \/ CreateSent(c)
         \/ FrameTooLarge(c) \/ FrameIgnored(c) \/ FrameRaised(c)
         \/ InputNoId(c)
    \/ \E c \in Connections, s \in Nameable : CreateSessionNew(c, s)
    \/ \E c \in Connections, s \in Nameable : InputNotFound(c, s)
    \/ \E c \in Connections, s \in Nameable : InputWrite(c, s)
    \/ \E c \in Connections, s \in Nameable : InputNotText(c, s)
    \/ \E c \in Connections, s \in Nameable : CloseSession(c, s)
    \/ \E t \in DOMAIN tasks : ReaderStart(t)
    \/ \E t \in DOMAIN tasks : ReaderOutput(t)
    \/ \E t \in DOMAIN tasks : ReaderEnd(t)

SpecDispatch == InitDispatch /\ [][NextDispatch]_vars

\* ------------------------------------------------------ RateLimiter alone
\* SpecLimiter follows one RateLimiter through calls of its methods, Redis
\* command by Redis command, with a clock that advances in steps shorter
\* than the 60 s of a connection counter.  Here `store` is the limiter with
\* what Redis holds: whether the constructor got a client (client), the
\* value of each counter key (count, 0: no such key), the time each key
\* expires at (ttl, 0: never), the set "connections:active" (active) and
\* the connections with a metadata hash (meta).
LimiterStep == 30
MaxLimiterTicks == 3
MaxCount == 3

Keys == {"connections", "commands"} \X IPs
\* The connections whose tracking is followed.
Tracked == {First}

\* What a Redis command does: it answers, or raises redis.ConnectionError.
RedisAnswers == {"ok", "ConnectionError"}
Answers == IF scenario = "outage" THEN RedisAnswers ELSE {"ok"}

\* `except redis.ConnectionError` (lines 17, 38, 52, 70, 80, 89)
Caught_none(exc) == FALSE
Caught(exc) == exc = "ConnectionError"

\* A method call: what it was given, what Redis answered to its commands,
\* how it ended ("return", or the exception it raised), what it returned.
Call(op, arg, answers, st, result, value) ==
    [op |-> op, arg |-> arg, answers |-> answers, client |-> st.client,
     result |-> result, value |-> value]

\* The outcome of a method: the limiter afterwards and how the call ended.
Outcome(st, result, value) == [store |-> st, result |-> result, value |-> value]
\* A Redis command raised exc: the except clause returns `value`, or the
\* exception leaves the method.
Failed(st, exc, value) ==
    IF Caught(exc) THEN Outcome(st, "return", value) ELSE Outcome(st, exc, 0)

\* INCR key, then EXPIRE key ttl when the count is 1 (lines 29-31, 47-49).
incr(st, key) == [st EXCEPT !.count[key] = @ + 1]
FirstOnly_every(count) == TRUE
FirstOnly(count) == count = 1
expire(st, key, ttl, t) == [st EXCEPT !.ttl[key] = t + ttl]

\* check_connection_limit (lines 22-39)
check_connection_limit(st, ip, t, a) ==
    LET key == <<"connections", ip>>
        counted == incr(st, key)
        count == counted.count[key]
    IN  IF ~st.client THEN Outcome(st, "return", 0)
        ELSE IF a[1] # "ok" THEN Failed(st, a[1], 0)
        ELSE IF FirstOnly(count) /\ a[2] # "ok" THEN Failed(counted, a[2], 0)
        ELSE LET kept == IF FirstOnly(count) THEN expire(counted, key, 60, t)
                         ELSE counted
             IN  IF count > rate_limit_connections
                 THEN Outcome(kept, "HTTPException", 0)
                 ELSE Outcome(kept, "return", 0)

\* check_command_limit (lines 41-54); 1 is True, 0 is False.
check_command_limit(st, ip, t, a) ==
    LET key == <<"commands", ip>>
        counted == incr(st, key)
        count == counted.count[key]
    IN  IF ~st.client THEN Outcome(st, "return", 1)
        ELSE IF a[1] # "ok" THEN Failed(st, a[1], 1)
        ELSE IF count = 1 /\ a[2] # "ok" THEN Failed(counted, a[2], 1)
        ELSE LET kept == IF count = 1 THEN expire(counted, key, 3600, t)
                         ELSE counted
             IN  Outcome(kept, "return",
                         IF count <= rate_limit_commands THEN 1 ELSE 0)

\* track_connection (lines 56-71): SADD, then HSET.
tracked(st, c, a) ==
    LET added == [st EXCEPT !.active = @ \cup {c}]
    IN  IF ~st.client THEN Outcome(st, "return", 0)
        ELSE IF a[1] # "ok" THEN Failed(st, a[1], 0)
        ELSE IF a[2] # "ok" THEN Failed(added, a[2], 0)
        ELSE Outcome([added EXCEPT !.meta = @ \cup {c}], "return", 0)

\* untrack_connection (lines 73-81): SREM, then DEL.
untracked(st, c, a) ==
    LET removed == [st EXCEPT !.active = @ \ {c}]
    IN  IF ~st.client THEN Outcome(st, "return", 0)
        ELSE IF a[1] # "ok" THEN Failed(st, a[1], 0)
        ELSE IF a[2] # "ok" THEN Failed(removed, a[2], 0)
        ELSE Outcome([removed EXCEPT !.meta = @ \ {c}], "return", 0)

\* get_active_connections_count (lines 83-91): SCARD.
get_active_connections_count(st, a) ==
    IF ~st.client THEN Outcome(st, "return", 0)
    ELSE IF a[1] # "ok" THEN Failed(st, a[1], 0)
    ELSE Outcome(st, "return", Cardinality(st.active))

\* RateLimiter() (lines 12-20): from_url and ping answered, or
\* ConnectionError left the limiter without a client.
InitLimiter ==
    /\ conn = [c \in Connections |->
                 [pc |-> "new", ip |-> "", sid |-> EmptySid, pty |-> 0,
                  accepted |-> FALSE, closeCode |-> 0,
                  checked |-> <<>>, limited |-> FALSE, tracked |-> 0,
                  frames |-> 0, size |-> 0, tries |-> 0]]
    /\ sweeper = [c \in Connections |->
                    [st |-> "none", sid |-> EmptySid, todo |-> {}]]
    /\ sessions = EmptyDict
    /\ ptys = EmptyDict
    /\ tasks = EmptyDict
    /\ session_last_activity = EmptyDict
    /\ session_input_totals = EmptyDict
    /\ websocket_sessions = EmptyDict
    /\ now = 0
    /\ scenario \in Scenarios
    /\ named = {}
    /\ container = "running"
    /\ \E a \in Answers :
         store = [client |-> (a = "ok"),
                  count |-> [k \in Keys |-> 0], ttl |-> [k \in Keys |-> 0],
                  active |-> {}, meta |-> {}]
    /\ last = Call("init", "", <<>>, store, "return", 0)

Limited(o, call) ==
    /\ store' = o.store
    /\ last' = call
    /\ UNCHANGED <<conn, sweeper, sessions, ptys, tasks, session_last_activity,
                   session_input_totals, websocket_sessions, now, scenario,
                   named, container>>

CheckConnection(ip) ==
    /\ store.count[<<"connections", ip>>] < MaxCount
    /\ \E a \in Answers \X Answers :
         LET o == check_connection_limit(store, ip, now, a)
         IN  Limited(o, Call("check_connection_limit", ip, a, store,
                             o.result, o.value))

CheckCommand(ip) ==
    /\ store.count[<<"commands", ip>>] < MaxCount
    /\ \E a \in Answers \X Answers :
         LET o == check_command_limit(store, ip, now, a)
         IN  Limited(o, Call("check_command_limit", ip, a, store,
                             o.result, o.value))

Track(c) ==
    \E a \in Answers \X Answers :
       LET o == tracked(store, c, a)
       IN  Limited(o, Call("track_connection", c, a, store, o.result, o.value))

Untrack(c) ==
    \E a \in Answers \X Answers :
       LET o == untracked(store, c, a)
       IN  Limited(o, Call("untrack_connection", c, a, store, o.result,
                           o.value))

ActiveCount ==
    \E a \in Answers \X {"ok"} :
       LET o == get_active_connections_count(store, a)
       IN  Limited(o, Call("get_active_connections_count", "", a, store,
                           o.result, o.value))

\* Time passes; Redis deletes the keys whose time has come.
LimiterTick ==
    /\ scenario = "clock"
    /\ now < MaxLimiterTicks * LimiterStep
    /\ now' = now + LimiterStep
    /\ LET gone == {k \in Keys : store.ttl[k] # 0 /\ store.ttl[k] <= now'}
       IN  store' = [store EXCEPT
                       !.count = [k \in Keys |-> IF k \in gone THEN 0 ELSE @[k]],
                       !.ttl = [k \in Keys |-> IF k \in gone THEN 0 ELSE @[k]]]
    /\ last' = Call("tick", "", <<>>, store, "return", 0)
    /\ UNCHANGED <<conn, sweeper, sessions, ptys, tasks, session_last_activity,
                   session_input_totals, websocket_sessions, scenario, named,
                   container>>

NextLimiter ==
    \/ \E ip \in IPs : CheckConnection(ip)
    \/ \E ip \in IPs : CheckCommand(ip)
    \/ \E c \in Tracked : Track(c)
    \/ \E c \in Tracked : Untrack(c)
    \/ ActiveCount
    \/ LimiterTick

SpecLimiter == InitLimiter /\ [][NextLimiter]_vars

\* ------------------------------------------------- the terminal container
\* SpecContainer follows a new bridge whose terminal container is in any
\* of the states Docker can report, through the opening and closing of
\* sessions.
InitContainer == Fresh /\ container \in ContainerStates /\ scenario = "outage"

NextContainer ==
    \/ \E c \in Connections :
         \/ ConnectOk(c) \/ Disconnect(c) \/ Cancel(c) \/ CreateSent(c)
    \/ \E c \in Connections, s \in Nameable : CreateSessionNew(c, s)
    \/ \E c \in Connections, s \in Nameable : CreateSessionStarted(c, s)
    \/ \E c \in Connections, s \in Nameable : CreateSessionAbsent(c, s)
    \/ \E c \in Connections, s \in Nameable : CreateSessionFailed(c, s)
    \/ \E c \in Connections, s \in Nameable : CloseSession(c, s)
    \/ \E t \in DOMAIN tasks : ReaderStart(t)
    \/ \E t \in DOMAIN tasks : ReaderOutput(t)
    \/ \E t \in DOMAIN tasks : ReaderEnd(t)

SpecContainer == InitContainer /\ [][NextContainer]_vars

\* ------------------------------------------------------- a send that fails
\* websocket.send_text raises (the client has gone, the channel is closed):
\* _send_message logs the exception and returns (terminal_bridge.py:44-48),
\* and its caller goes on as after a send that worked.
Unsent(e) == [e EXCEPT !.env = "send_failed"]

\* read_from_session, lines 136-144, the send of the output frame failing:
\* the callback returns and the loop reads again.
ReaderOutputFailed(t) ==
    /\ tasks[t].st = "running"
    /\ ptys[tasks[t].pty].open
    /\ last' = Unsent(Event("output", tasks[t].conn, tasks[t].sid, 0, "",
                            tasks[t].pty, Frame("output", tasks[t].sid, "")))
    /\ UNCHANGED <<conn, sweeper, sessions, ptys, tasks, session_last_activity,
                   session_input_totals, websocket_sessions, store, now>>
    /\ UNCHANGED <<scenario, named, container>>

\* _handle_input, lines 111-119, the send of "Session not found" failing:
\* the handler returns to the dispatch loop.
InputNotFoundUnsent(c, s) ==
    /\ Receive(c)
    /\ s \notin DOMAIN sessions
    /\ last' = Unsent(Event("input", c, s, 0, "", 0,
                            Frame("error", s, "Session not found")))
    /\ conn' = Received(conn, c)
    /\ UNCHANGED <<sweeper, sessions, ptys, tasks, session_last_activity,
                   session_input_totals, websocket_sessions, store, now>>
    /\ named' = named \cup {s}
    /\ UNCHANGED <<scenario, container>>

\* SpecSend follows a served connection with a new session through sends
\* that may fail and writes that may find the socket full.  A suspended
\* writer's next attempt always comes, and every client leaves in the end:
\* a handler that waits in receive_text gets the disconnect.
InitSend == Serving(0)

NextSend ==
    \/ \E c \in Connections :
         \/ ConnectOk(c) \/ Disconnect(c) \/ Cancel(c)
         \/ WriteBlocked(c) \/ WriteSent(c) \/ WriteFailed(c)
    \/ \E c \in Connections, s \in Nameable : InputNotFoundUnsent(c, s)
    \/ \E c \in Connections, s \in Nameable : InputWrite(c, s)
    \/ \E c \in Connections, s \in Nameable : InputWriteBlocked(c, s)
    \/ \E c \in Connections, s \in Nameable : CloseSession(c, s)
    \/ \E t \in DOMAIN tasks : ReaderOutput(t)
    \/ \E t \in DOMAIN tasks : ReaderOutputFailed(t)
    \/ \E t \in DOMAIN tasks : ReaderEnd(t)

SpecSend ==
    /\ InitSend
    /\ [][NextSend]_vars
    /\ \A c \in Connections : WF_vars(WriteAttempt(c))
    /\ \A c \in Connections : WF_vars(Disconnect(c))

\* ------------------------------------------------- the chunks of a PTY
\* SpecOutput numbers the chunks a PTY's socket hands out: `produced` is
\* how many have been read from it, by whichever reader, and `delivered`
\* lists the ones sent on the channel of the connection that created the
\* PTY, in the order of the sends.
MaxChunks == 2

\* read_from_session, lines 136-144: sock_recv returns the socket's next
\* chunk to this reader, which sends it on the websocket its handler gave
\* it (terminal_bridge.py:82-86).  The event's size is the chunk's number.
ReaderChunk(t) ==
    /\ tasks[t].st = "running"
    /\ ptys[tasks[t].pty].open
    /\ ptys[tasks[t].pty].produced < MaxChunks
    /\ LET p == tasks[t].pty
           n == ptys[p].produced + 1
       IN  /\ ptys' = [ptys EXCEPT
                         ![p].produced = n,
                         ![p].delivered = IF tasks[t].conn = ptys[p].creator
                                          THEN Append(@, n) ELSE @]
           /\ last' = Event("output", tasks[t].conn, tasks[t].sid, n, "", p,
                            Frame("output", tasks[t].sid, ""))
    /\ UNCHANGED <<conn, sweeper, sessions, tasks, session_last_activity,
                   session_input_totals, websocket_sessions, store, now>>
    /\ UNCHANGED <<scenario, named, container>>

InitOutput == Serving(0)

NextOutput ==
    \/ \E c \in Connections :
         \/ ConnectOk(c) \/ Disconnect(c) \/ Cancel(c) \/ CreateSent(c)
    \/ \E c \in Connections, s \in Nameable : CreateSessionExisting(c, s)
    \/ \E c \in Connections, s \in Nameable : CreateSessionNew(c, s)
    \/ \E c \in Connections, s \in Nameable : CloseSession(c, s)
    \/ \E t \in DOMAIN tasks : ReaderStart(t)
    \/ \E t \in DOMAIN tasks : ReaderChunk(t)
    \/ \E t \in DOMAIN tasks : ReaderEnd(t)

SpecOutput == InitOutput /\ [][NextOutput]_vars

\* ================================================================ claims
Done(c) == conn[c].pc = "done"

\* C1: when handle_websocket has returned for a connection, by whatever exit
\* path, every PTYSession created on that connection is out of the registry
\* and its socket is closed.
C1_SessionsClosedOnReturn ==
    \A c \in Connections : Done(c) =>
        \A p \in DOMAIN ptys : ptys[p].creator = c =>
            ~ptys[p].open /\ p \notin Range(sessions)

\* A connection has returned and its finally block closed a session.
C1_Witness ==
    /\ last.op \in {"disconnect", "cancel"}
    /\ last.closed # {}
    /\ Done(last.conn)

\* C2: after handle_websocket has returned for a connection, the rate-limit
\* store holds no active-connection record for its connection_id.
C2_NoRecordAfterReturn ==
    \A c \in Connections : Done(c) => c \notin store.active

\* C3: after handle_websocket has returned for a connection, neither its
\* sweeper nor any reader task spawned for one of its sessions is still
\* running (started, and neither finished nor cancelled).
C3_NoTaskAfterReturn ==
    \A c \in Connections : Done(c) =>
        /\ sweeper[c].st \notin {"sleep", "send_idle"}
        /\ \A t \in DOMAIN tasks :
              tasks[t].conn = c => tasks[t].st # "running"

\* C4: a connection attempt that fails check_connection_limit never has
\* websocket.accept() invoked.
C4_RefusedNeverAccepted ==
    \A c \in Connections : conn[c].limited => ~conn[c].accepted

\* C5: check_connection_limit is called exactly once per connection, with the
\* client IP; when it fails the connection is never tracked, receives no
\* frame, creates no session, gets no session set and no sweeper, and is
\* closed with code 1011.
C5_RefusedConnection ==
    \A c \in Connections :
        /\ conn[c].pc # "new" => conn[c].checked = <<conn[c].ip>>
        /\ conn[c].limited =>
            /\ Done(c)
            /\ conn[c].tracked = 0
            /\ c \notin store.active
            /\ conn[c].frames = 0
            /\ \A p \in DOMAIN ptys : ptys[p].creator # c
            /\ c \notin DOMAIN websocket_sessions
            /\ sweeper[c].st = "none"
            /\ conn[c].closeCode = 1011

\* A connection was refused while another one is being served.
C5_Witness ==
    \E c, d \in Connections :
        conn[c].limited /\ last.op = "connect" /\ last.conn = c /\ Loop(d)

\* C6: a create_session frame naming an id absent from the registry, with
\* exec creation succeeding, registers the session and emits session_created
\* with that id, and no output frame for a session precedes its
\* session_created; with container lookup or exec creation failing it emits
\* an error frame with that id and leaves registry and session sets alone.
C6_CreateSession ==
    [][/\ (last'.op = "create_session" /\ last'.env = "exec_ok"
              /\ last'.sid \notin DOMAIN sessions) =>
            /\ last'.sid \in DOMAIN sessions'
            /\ sessions'[last'.sid] \notin DOMAIN ptys
            /\ ptys'[sessions'[last'.sid]].open
            /\ last'.frame = Frame("session_created", last'.sid, "")
       /\ (last'.op = "create_session" /\ last'.env = "exec_fail") =>
            /\ last'.frame.type = "error"
            /\ last'.frame.sessionId = last'.sid
            /\ sessions' = sessions
            /\ websocket_sessions' = websocket_sessions
       /\ last'.op = "output" =>
            /\ last'.frame = Frame("output", last'.sid, "")
            /\ ptys[last'.pty].sid = last'.sid
            /\ ptys[last'.pty].announced]_vars

\* A reader has emitted output for a session that is registered.
C6_Witness ==
    /\ last.op = "output"
    /\ last.sid \in DOMAIN sessions
    /\ sessions[last.sid] = last.pty

\* C7: create_session for an id already in the registry leaves the existing
\* session's cumulative input count and last-activity time unchanged (and
\* creates no exec).
C7_Idempotent ==
    [][(last'.op = "create_session" /\ last'.sid \in DOMAIN sessions) =>
            /\ sessions' = sessions
            /\ session_input_totals' = session_input_totals
            /\ session_last_activity' = session_last_activity]_vars

\* C8: at every moment each session id is in the session set of at most one
\* connection.
C8_OneOwner ==
    \A c, d \in Connections : c # d => Owned(c) \cap Owned(d) = {}

\* C9: an accepted input frame is appended to what the PTY of the session it
\* names has received, after everything that PTY received before, and no
\* other PTY receives anything; no other step writes to a PTY.
C9_InputIsolation ==
    [][\A p \in DOMAIN ptys \cap DOMAIN ptys' :
          ptys'[p].written =
              IF /\ last'.op = "input" /\ last'.env = "write_ok"
                 /\ p = sessions[last'.sid]
              THEN Append(ptys[p].written, last'.conn)
              ELSE ptys[p].written]_vars

\* An input frame was written to one of two registered sessions.
C9_Witness ==
    /\ last.op = "input" /\ last.env = "write_ok"
    /\ Cardinality(DOMAIN sessions) = 2
    /\ Len(ptys[sessions[last.sid]].written) = 1
    /\ \E s \in DOMAIN sessions \ {last.sid} : ptys[sessions[s]].written = <<>>

\* C10: an input frame naming an id absent from the registry gets the error
\* frame "Session not found" with that id; no PTY is written to, the command
\* counter is not incremented, the connection keeps being served and every
\* session stays as it was.
C10_InputNotFound ==
    [][(last'.op = "input" /\ last'.sid # EmptySid
          /\ last'.sid \notin DOMAIN sessions) =>
            /\ last'.frame = Frame("error", last'.sid, "Session not found")
            /\ ptys' = ptys
            /\ store' = store
            /\ sessions' = sessions
            /\ websocket_sessions' = websocket_sessions
            /\ Loop(last'.conn) /\ conn'[last'.conn].pc = "loop"]_vars

\* An input frame named an absent id while another session was open.
C10_Witness ==
    /\ last.op = "input"
    /\ last.frame.info = "Session not found"
    /\ \E s \in DOMAIN sessions : ptys[sessions[s]].open /\ s \in Owned(last.conn)

\* C11: every input frame naming a registered session has check_command_limit
\* called with the client's address; when the call returns False the frame
\* gets the error "Rate limit exceeded" with its id, no PTY is written to, the
\* session's byte count and last-activity time stay as they were and the
\* session stays registered and open.
C11_InputRateLimited ==
    [][(last'.op = "input" /\ last'.sid \in DOMAIN sessions) =>
          LET ip == conn[last'.conn].ip IN
          /\ \E up \in BOOLEAN :
                store' = store_after_check_command(store, ip, up)
          /\ (store' # store /\ store'.cmds[ip] > rate_limit_commands) =>
                /\ last'.frame = Frame("error", last'.sid,
                                       "Rate limit exceeded. Please wait.")
                /\ ptys' = ptys
                /\ session_input_totals' = session_input_totals
                /\ session_last_activity' = session_last_activity
                /\ sessions' = sessions
                /\ websocket_sessions' = websocket_sessions]_vars

\* An input frame was refused for the rate limit after an earlier one had
\* been written to the same session, which is still open.
C11_Witness ==
    /\ last.op = "input"
    /\ last.frame.info = "Rate limit exceeded. Please wait."
    /\ last.sid \in DOMAIN sessions
    /\ ptys[sessions[last.sid]].open
    /\ Len(ptys[sessions[last.sid]].written) = 1

\* C12: no PTY ever receives more than MAX_TOTAL_INPUT_PER_SESSION bytes of
\* input, counted from its creation.
C12_ByteCap ==
    \A p \in DOMAIN ptys : ptys[p].received <= MAX_TOTAL_INPUT_PER_SESSION

\* C13: an input frame that passes the command limit and the size check and
\* takes the session's byte count over MAX_TOTAL_INPUT_PER_SESSION gets an
\* error frame with its id and none of its bytes reach a PTY; when that send
\* is over, the id is out of the registry and out of the connection's session
\* set, the PTYSession it named is closed, and the connection goes on
\* receiving frames.
C13_OverCap ==
    [][/\ (/\ last'.op = "input" /\ last'.sid \in DOMAIN sessions
           /\ ~(/\ store' # store
                /\ store'.cmds[conn[last'.conn].ip] > rate_limit_commands)
           /\ 0 < last'.size /\ last'.size <= MAX_INPUT_SIZE
           /\ TotalAfter(last'.sid, last'.size) > MAX_TOTAL_INPUT_PER_SESSION) =>
            /\ last'.frame.type = "error"
            /\ last'.frame.sessionId = last'.sid
            /\ ptys' = ptys
            /\ conn'[last'.conn].pc = "send_cap"
       /\ last'.op = "cap_sent" =>
            /\ conn[last'.conn].pc = "send_cap"
            /\ last'.sid = conn[last'.conn].sid
            /\ last'.sid \notin DOMAIN sessions'
            /\ last'.sid \notin websocket_sessions'[last'.conn]
            /\ last'.pty \in DOMAIN ptys' => ~ptys'[last'.pty].open
            /\ conn'[last'.conn].pc = "loop"]_vars

\* The send of the over-the-ceiling error is over and the session, which a
\* PTY was registered for and the connection owned, has been closed.
C13_Witness ==
    /\ last.op = "cap_sent"
    /\ last.pty # 0
    /\ Loop(last.conn)
    /\ session_input_totals[last.sid] > MAX_TOTAL_INPUT_PER_SESSION

\* C14: when the write of an input frame to the session's socket fails with
\* an error other than would-block, the session is closed and an error frame
\* with the frame's id is emitted.
C14_WriteError ==
    [][(last'.op = "input" /\ last'.env = "write_oserror") =>
          /\ last'.sid \notin DOMAIN sessions'
          /\ last'.pty \in DOMAIN ptys' => ~ptys'[last'.pty].open
          /\ last'.frame.type = "error"
          /\ last'.frame.sessionId = last'.sid]_vars

\* C15: a write to a PTY always ends: a handler that is writing an input
\* frame gets back to receiving frames (or is torn down).
C15_WriteTerminates ==
    \A c \in Connections : (conn[c].pc = "write") ~> (conn[c].pc # "write")

\* C16: a resize frame whose cols and rows are integers in 1..1000, naming a
\* registered session, makes exactly one exec_resize call, for the exec of
\* that session, with width = cols and height = rows; no error frame is
\* emitted when the call succeeds.
C16_Resize ==
    [][(/\ last'.op = "resize" /\ last'.sid \in DOMAIN sessions
        /\ \A i \in {1, 2} : /\ last'.dims[i].kind = "int"
                             /\ last'.dims[i].val \in 1..1000) =>
          /\ \A p \in DOMAIN ptys :
                /\ p \in DOMAIN ptys'
                /\ ptys'[p].resized =
                     IF p = sessions[last'.sid]
                     THEN Append(ptys[p].resized,
                                 [width |-> last'.dims[1], height |-> last'.dims[2]])
                     ELSE ptys[p].resized
          /\ last'.env = "resize_ok" => last'.frame = NoFrame]_vars

\* A session was resized to 1000 columns by 1 row while a second session,
\* resized before, is registered.
C16_Witness ==
    /\ last.op = "resize" /\ last.env = "resize_ok"
    /\ last.dims = <<JInt(1000), JInt(1)>>
    /\ \E s \in DOMAIN sessions \ {last.sid} :
          Len(ptys[sessions[s]].resized) = 1

\* C17: a resize frame that carries a cols or a rows that is not an integer
\* in 1..1000 gets an error frame with its id, makes no exec_resize call and
\* changes no session and nothing of the connection.
C17_ResizeInvalid ==
    [][(/\ last'.op = "resize" /\ last'.sid # EmptySid
        /\ \A i \in {1, 2} : last'.dims[i] # JAbsent
        /\ \E i \in {1, 2} : ~(/\ last'.dims[i].kind = "int"
                               /\ last'.dims[i].val \in 1..1000)) =>
          /\ last'.frame.type = "error"
          /\ last'.frame.sessionId = last'.sid
          /\ ptys' = ptys
          /\ sessions' = sessions
          /\ websocket_sessions' = websocket_sessions
          /\ conn'[last'.conn].pc = "loop"]_vars

\* C18: a close_session frame takes the id it names out of the registry and
\* out of the connection's session set and emits session_closed with that
\* id; the PTYSession that was registered under the id is closed and no
\* reader of it is left running; for an id that is not registered no
\* session, PTY or reader changes.
C18_CloseSession ==
    [][(last'.op = "close_session" /\ last'.sid # EmptySid) =>
          /\ last'.sid \notin DOMAIN sessions'
          /\ last'.sid \notin websocket_sessions'[last'.conn]
          /\ last'.frame = Frame("session_closed", last'.sid, "")
          /\ last'.sid \in DOMAIN sessions =>
                /\ sessions[last'.sid] \in DOMAIN ptys' =>
                      ~ptys'[sessions[last'.sid]].open
                /\ \A t \in DOMAIN tasks' :
                      tasks'[t].pty # sessions[last'.sid]
          /\ last'.sid \notin DOMAIN sessions =>
                sessions' = sessions /\ ptys' = ptys /\ tasks' = tasks]_vars

\* C19: once session_closed for an id has been emitted on a connection, no
\* frame the server sends of its own accord (a reader's output, the
\* sweeper's error) carries that id on that connection; stated for the frame
\* emitted next.
C19_ClosedIsLast ==
    [][(/\ last.frame.type = "session_closed"
        /\ last'.op \in {"output", "sweep", "sweep_sent"}
        /\ last'.conn = last.conn
        /\ last'.frame.type # "none") =>
          last'.frame.sessionId # last.frame.sessionId]_vars

\* C20: when the teardown of a connection completes, no session announced on
\* it is still waiting for its session_closed: every id in the connection's
\* session set (announced by session_created, no session_closed since) gets
\* its session_closed frame from the teardown.
C20_ClosedOnTeardown ==
    [][\A c \in Connections :
          (conn[c].pc # "done" /\ conn'[c].pc = "done") =>
              \A s \in Owned(c) :
                  last'.frame = Frame("session_closed", s, "")]_vars

\* C21: when a reader gets a zero-length read or a socket error its loop ends,
\* and if the session it read for is still registered, the session is taken
\* out of the registry and session_closed with its id is emitted.
C21_ReaderEnd ==
    [][last'.op = "reader_end" =>
          /\ Cardinality(DOMAIN tasks') < Cardinality(DOMAIN tasks)
          /\ (/\ last'.sid \in DOMAIN sessions
              /\ sessions[last'.sid] = last'.pty) =>
                /\ last'.sid \notin DOMAIN sessions'
                /\ last'.frame = Frame("session_closed", last'.sid, "")]_vars

\* C22: a registered session that no handler is still announcing has a reader
\* task, and every running reader reads the PTY of a registered session.
C22_ReaderIffRegistered ==
    /\ \A s \in DOMAIN sessions :
          (\A c \in Connections :
               ~(conn[c].pc = "send_created" /\ conn[c].sid = s)) =>
             \E t \in DOMAIN tasks : tasks[t].sid = s
    /\ \A t \in DOMAIN tasks :
          tasks[t].st = "running" =>
             /\ tasks[t].sid \in DOMAIN sessions
             /\ sessions[tasks[t].sid] = tasks[t].pty

\* C23: when the sweeper wakes, the sessions of its connection whose last
\* activity is more than SESSION_IDLE_TIMEOUT in the past, and no others, are
\* listed; each listed session gets an error frame with its id and, when that
\* send is over, is out of the registry and out of the connection's session
\* set with its socket closed; no other session is touched, and the sweeper
\* changes nothing of the connection's handler (it never closes the channel).
C23_Sweeper ==
    [][/\ last'.op = "sweep" =>
            LET c == last'.conn IN
            /\ sweeper[c].st = "sleep"
            /\ sweeper'[c].sid = last'.sid
            /\ sweeper'[c].todo \cup {last'.sid} =
                 {s \in websocket_sessions[c] :
                     /\ s \in DOMAIN session_last_activity
                     /\ now - session_last_activity[s] > 30 * 60}
            /\ last'.frame = Frame("error", last'.sid, IdleMsg)
            /\ sessions' = sessions /\ ptys' = ptys /\ conn' = conn
            /\ websocket_sessions' = websocket_sessions
       /\ last'.op = "sweep_sent" =>
            LET c == last'.conn
                s == sweeper[c].sid
            IN
            /\ sessions' = PopAll(sessions, {s})
            /\ websocket_sessions' =
                 [websocket_sessions EXCEPT ![c] = @ \ {s}]
            /\ \A p \in DOMAIN ptys :
                  IF s \in DOMAIN sessions /\ p = sessions[s]
                  THEN p \in DOMAIN ptys' => ~ptys'[p].open
                  ELSE p \in DOMAIN ptys' /\ ptys'[p] = ptys[p]
            /\ conn' = conn
            /\ IF sweeper[c].todo = {}
               THEN last'.frame = NoFrame /\ sweeper'[c].st = "sleep"
               ELSE /\ last'.sid \in sweeper[c].todo
                    /\ sweeper'[c].sid = last'.sid
                    /\ sweeper'[c].todo = sweeper[c].todo \ {last'.sid}
                    /\ last'.frame = Frame("error", last'.sid, IdleMsg)]_vars

\* The sweeper has closed an idle session and left a session of the same
\* connection, active within the timeout, registered and open.
C23_Witness ==
    /\ last.op = "sweep_sent"
    /\ \E s \in Owned(last.conn) \cap DOMAIN sessions :
          /\ ptys[sessions[s]].open
          /\ now - session_last_activity[s] <= SESSION_IDLE_TIMEOUT
    /\ Loop(last.conn)

\* C24: the idle reap of a session emits an error frame with its id and then
\* a session_closed frame with its id, and the id is out of the registry.
C24_ReapEmitsClosed ==
    [][last'.op = "sweep_sent" =>
          /\ last.frame.type = "error" =>
                last'.frame = Frame("session_closed", last.frame.sessionId, "")
          /\ sweeper[last'.conn].sid \notin DOMAIN sessions']_vars

\* C25: a frame of more than 64 KiB is answered, whatever it holds, with one
\* error frame and nothing else: no handler runs, no session, bookkeeping or
\* rate-limit state changes, and the connection stays in its receive loop;
\* a frame of at most 64 KiB is never answered so.
C25_FrameTooLarge ==
    [][last'.op = "frame" =>
          /\ last'.size > 64 * 1024 =>
                /\ last'.frame = Frame("error", "",
                                       "Message too large. Maximum size is 64KB.")
                /\ conn' = [conn EXCEPT ![last'.conn].frames = @ + 1]
                /\ conn'[last'.conn].pc = "loop"
                /\ UNCHANGED <<sweeper, sessions, ptys, tasks,
                               session_last_activity, session_input_totals,
                               websocket_sessions, store>>
          /\ last'.size <= 64 * 1024 => last'.frame.type # "error"]_vars

\* An oversize frame that held a frame for a handler has been rejected, and
\* the connection, which owns an open session, is in its receive loop.
C25_Witness ==
    /\ last.op = "frame"
    /\ last.size > 64 * 1024
    /\ last.env = "handled"
    /\ Loop(last.conn)
    /\ \E s \in Owned(last.conn) : s \in DOMAIN sessions

\* C26: a frame of at most 64 KiB that is no JSON, no JSON object, has no
\* type or an unknown type is dropped: nothing is emitted, nothing changes
\* and the connection stays in its receive loop.
C26_FrameDropped ==
    [][(/\ last'.op = "frame"
        /\ last'.size <= 64 * 1024
        /\ last'.env # "handled") =>
          /\ last'.frame = NoFrame
          /\ conn'[last'.conn].pc = "loop"
          /\ UNCHANGED <<sweeper, sessions, ptys, tasks,
                         session_last_activity, session_input_totals,
                         websocket_sessions, store>>]_vars

\* C27: handling a frame for one session never ends the dispatch loop and
\* never closes another session of the connection.
C27_FailuresLocal ==
    [][last'.op \in {"create_session", "input", "resize", "close_session"} =>
          /\ conn'[last'.conn].pc # "done"
          /\ \A s \in Owned(last'.conn) \ {last'.sid} :
                s \in DOMAIN sessions => s \in DOMAIN sessions']_vars

\* C28: no two sends on one client channel are in progress at once: while
\* the connection's handler is suspended in a send, its idle sweeper is not
\* suspended in one, and no reader starts one.
C28_SendsSerialized ==
    /\ \A c \in Connections :
          ~(/\ conn[c].pc \in {"send_created", "send_cap"}
            /\ sweeper[c].st = "send_idle")
    /\ [][last'.op = "output" =>
             /\ conn[last'.conn].pc \notin {"send_created", "send_cap"}
             /\ sweeper[last'.conn].st # "send_idle"]_vars

\* C29: a connection check that reaches the store, for an address whose
\* counter is absent or running out, counts 1 and starts a window of 60 s
\* when there is no counter, one more than the counter when there is, and
\* leaves the window's end alone; it succeeds when the count is at most
\* rate_limit_connections and fails otherwise; and when the window's end
\* has come the counter is gone.
C29_ConnectionWindow ==
    [][/\ (/\ last'.op = "check_connection_limit"
           /\ last'.client
           /\ last'.answers = <<"ok", "ok">>
           /\ LET k == <<"connections", last'.arg>>
              IN  store.count[k] = 0 \/ store.ttl[k] # 0) =>
             LET k == <<"connections", last'.arg>>
                 running == store.count[k] > 0 /\ now < store.ttl[k]
                 count == IF running THEN store.count[k] + 1 ELSE 1
             IN  /\ store'.count[k] = count
                 /\ store'.ttl[k] = IF running THEN store.ttl[k] ELSE now + 60
                 /\ last'.result = IF count <= rate_limit_connections
                                   THEN "return" ELSE "HTTPException"
       /\ last'.op = "tick" =>
             \A k \in Keys :
                (store.ttl[k] # 0 /\ store.ttl[k] <= now') =>
                    store'.count[k] = 0 /\ store'.ttl[k] = 0]_vars

\* A second attempt has been refused again, in a window that began after
\* time had passed, and another address is still let in.
C29_Witness ==
    /\ last.op = "check_connection_limit"
    /\ last.result = "HTTPException"
    /\ last.answers = <<"ok", "ok">>
    /\ store.count[<<"connections", last.arg>>] = 3
    /\ store.ttl[<<"connections", last.arg>>] > 60
    /\ now < store.ttl[<<"connections", last.arg>>]
    /\ \E ip \in IPs : store.count[<<"connections", ip>>] = 0

\* C30: a method of the limiter that finds no client, or whose Redis
\* command raises ConnectionError, returns without error: the connection
\* check succeeds, the command check returns True, the active count is 0.
C30_DegradeOpen ==
    [][(/\ last'.op \in {"check_connection_limit", "check_command_limit",
                         "track_connection", "untrack_connection",
                         "get_active_connections_count"}
        /\ \/ ~last'.client
           \/ last'.answers[1] = "ConnectionError"
           \/ /\ last'.answers[2] = "ConnectionError"
              /\ \/ last'.op \in {"track_connection", "untrack_connection"}
                 \/ /\ last'.op = "check_connection_limit"
                    /\ store.count[<<"connections", last'.arg>>] = 0
                 \/ /\ last'.op = "check_command_limit"
                    /\ store.count[<<"commands", last'.arg>>] = 0) =>
          /\ last'.result = "return"
          /\ last'.op = "check_command_limit" => last'.value = 1
          /\ last'.op = "get_active_connections_count" => last'.value = 0]_vars

\* The store was away when an address over its limit asked to connect, and
\* the limiter let it in.
C30_Witness ==
    /\ last.op = "check_connection_limit"
    /\ last.client
    /\ last.answers[1] = "ConnectionError"
    /\ last.result = "return"
    /\ store.count[<<"connections", last.arg>>] >= rate_limit_connections

\* C31: a create_session frame that finds the terminal container absent or
\* not running is answered with an error frame, makes no session and
\* leaves the container as it was.
C31_EnsureRunning ==
    [][(last'.op = "create_session" /\ last'.sid # EmptySid
        /\ container # "running") =>
          /\ last'.frame.type = "error"
          /\ sessions' = sessions
          /\ container' = container]_vars

\* C32: when the exec_resize call made for a valid resize frame fails, an
\* error frame with the frame's id is emitted and the session stays open.
C32_ResizeFailed ==
    [][(last'.op = "resize" /\ last'.env = "resize_error") =>
          /\ last'.frame.type = "error"
          /\ last'.frame.sessionId = last'.sid
          /\ last'.sid \in DOMAIN sessions'
          /\ ptys'[sessions'[last'.sid]].open]_vars

\* C33: after a send on a connection's channel has failed, the connection
\* eventually enters its teardown.
C33_FailedSendFatal ==
    \A c \in Connections :
       (last.env = "send_failed" /\ last.conn = c) ~> Done(c)

\* C34: the chunks read from a PTY reach the client of its session in the
\* order they were read, each one once and none missing.
C34_OutputOrder ==
    \A p \in DOMAIN ptys :
       ptys[p].delivered = [i \in 1..ptys[p].produced |-> i]

\* C36: an input, resize or close_session frame received on a connection
\* leaves every PTY created by another connection as it was: nothing is
\* written to it, it is not resized, not closed and not unregistered.
C36_ControlIsolation ==
    [][last'.op \in {"input", "resize", "close_session"} =>
          \A p \in DOMAIN ptys :
             ptys[p].creator # last'.conn =>
                /\ p \in DOMAIN ptys'
                /\ ptys'[p] = ptys[p]
                /\ \A s \in DOMAIN sessions :
                      sessions[s] = p =>
                         s \in DOMAIN sessions' /\ sessions'[s] = p]_vars

\* C37: an output frame built from a chunk of a PTY is sent on the channel
\* of the connection that created the PTY, and on no other.
C37_OutputIsolation ==
    (last.op = "output" /\ last.pty \in DOMAIN ptys) =>
        ptys[last.pty].creator = last.conn

\* C35: every input frame that names a registered session sets the
\* session's last activity to the time of the frame.
C35_InputIsActivity ==
    [][(last'.op = "input" /\ last'.sid \in DOMAIN sessions) =>
          /\ last'.sid \in DOMAIN session_last_activity'
          /\ session_last_activity'[last'.sid] = now]_vars

\* C38: whenever no handler and no sweeper is in the middle of a step, the
\* sessions with a last-activity entry or a byte count are registered.
C38_NoBookkeepingLeak ==
    (/\ \A c \in Connections : conn[c].pc \in {"new", "loop", "done"}
     /\ \A c \in Connections : sweeper[c].st # "send_idle") =>
        /\ DOMAIN session_last_activity \subseteq DOMAIN sessions
        /\ DOMAIN session_input_totals \subseteq DOMAIN sessions

\* C39: a session the sweeper closes after sending its idle error is idle
\* at the moment it is closed.
C39_SweeperRechecks ==
    [][last'.op = "sweep_sent" =>
          LET s == sweeper[last'.conn].sid
          IN  (s \in DOMAIN sessions /\ s \notin DOMAIN sessions') =>
                 /\ s \in DOMAIN session_last_activity
                 /\ now - session_last_activity[s] > SESSION_IDLE_TIMEOUT]_vars

\* C40: every registered session is in the session set of a connection
\* whose handler is running.
C40_NoOrphan ==
    \A s \in DOMAIN sessions :
       \E c \in Connections :
          /\ conn[c].pc \notin {"new", "done"}
          /\ s \in Owned(c)

\* A connection has been torn down and a session of another connection,
\* whose handler is running, is still registered.
C40_Witness ==
    /\ last.op = "disconnect"
    /\ Done(last.conn)
    /\ \E s \in DOMAIN sessions, c \in Connections \ {last.conn} :
          Loop(c) /\ s \in Owned(c)

====
